---- MODULE Spec2Model ----
(***************************************************************************)
(* Model of blogue-core: the statistical frontmatter pattern learner       *)
(* (pattern-detection.ts), framework detection (framework-detection.ts)    *)
(* and post creation with its conflict-resolution policy (index.ts), and   *)
(* the content-config schema parser (astro-schema-analyzer.ts).            *)
(*                                                                         *)
(* Representation                                                          *)
(*   - a JavaScript value is a record [k, s, n]: k is the kind, s the      *)
(*     characters of a string / the elements of an array / the keys of an  *)
(*     object, n the number, the boolean (0/1) or the instant of a Date;   *)
(*   - a JavaScript object used as a map (frontmatter, template) is a      *)
(*     sequence of entries [name, value] in insertion order;               *)
(*   - an optional value (T | null | undefined) is a sequence of length    *)
(*     0 or 1;                                                             *)
(*   - frequencies are exact rationals [num, den]; confidences are counted *)
(*     in tenths (0.6 is 6).  Every sum the code can form from its         *)
(*     increments compares with the thresholds 0.7 and 0.8 in IEEE double  *)
(*     arithmetic exactly as the tenths do (0.6+0.1 = 0.7, 0.4+0.4 = 0.8,  *)
(*     0.5+0.3 = 0.8 are exact; no other sum is within 1e-15 of a          *)
(*     threshold on the wrong side).                                       *)
(***************************************************************************)
EXTENDS Integers, Sequences, FiniteSets, TLC

VARIABLES
    dirExists,          \* existsSync(contentDir)
    files,              \* readdirSync(contentDir): the files, in listing order
    project,            \* what the project root contains (marker files, deps, collections)
    pc,                 \* "idle" | "detected" | "written" | "parsed" | "generated" | ...
    call,               \* arguments of the operation that ran
    detection,          \* DetectionResult of detectFrontmatterPattern
    frameworkDetection, \* FrameworkDetectionResult of detectFramework
    useFrameworkInstead,\* result of shouldPreferFrameworkOverPattern
    written,            \* the post file written by createPost: <<>> or <<[dir, frontmatter]>>
    configSource,       \* the content config (src/content/config.ts) handed to the parser
    parsedCollections,  \* AstroCollection[] returned by parseConfigFromSource
    generatedTemplate,  \* what generateTemplate returned: <<>> or <<template>>
    declaredFields,     \* the fields written in the schema text, in order
    schemaText,         \* the schema text handed to analyzeSchema
    analysisResult,     \* SchemaAnalysis returned by analyzeSchema: <<>> or <<analysis>>
    postFile,           \* the post file at filePath: <<>> (no such file) or <<[data, body]>>
    fileBefore,         \* the post file as the last publishPost/unpublishPost found it
    publishError,       \* the error the last publishPost/unpublishPost threw: <<>> or <<message>>
    repo,               \* the git working copy: [current, branches]
    originalBranch,     \* originalBranch of executeGitWorkflow: <<>> or <<branch>>
    branchName,         \* branchName of executeGitWorkflow: <<>> (null) or <<branch>>
    elapsed,            \* Date.now() - startTime in waitForPRCompletion, milliseconds
    rounds,             \* rounds of the wait loop that ended with pollInterval * 1.2
    lastStatus,         \* what the last checkPRStatus returned: <<>> (it threw) or <<status>>
    lastAnswer,         \* the answer to the prompt of the last round: <<>> or <<answer>>
    waitResult,         \* what waitForPRCompletion returned: <<>> or <<outcome>>
    ending,             \* how executeGitWorkflow ended: "none" while it runs
    literalValue,       \* the value of a string literal node of a schema
    evaluatedSchema     \* what astNodeToZodSchema returned for the schema: <<>> or <<result>>

vars == <<dirExists, files, project, pc, call, detection, frameworkDetection,
          useFrameworkInstead, written, configSource, parsedCollections, generatedTemplate,
          declaredFields, schemaText, analysisResult,
          postFile, fileBefore, publishError,
          repo, originalBranch, branchName, elapsed, rounds, lastStatus, lastAnswer,
          waitResult, ending, literalValue, evaluatedSchema>>

\* the variables of createPost and the learner, of the schema parser, of
\* the text-based schema analysis, of publishPost and unpublishPost,
\* of executeGitWorkflow, of the reconstruction of a string literal
createVars == <<dirExists, files, project, detection, frameworkDetection,
                useFrameworkInstead, written>>

parserVars == <<configSource, parsedCollections, generatedTemplate>>

introspectionVars == <<declaredFields, schemaText, analysisResult>>

publishVars == <<postFile, fileBefore, publishError>>

gitVars == <<repo, originalBranch, branchName, elapsed, rounds, lastStatus, lastAnswer,
             waitResult, ending>>

literalVars == <<literalValue, evaluatedSchema>>

----------------------------------------------------------------------------
(* Bounds *)

MaxSamples == 6      \* files in the content directory, learner specification
MaxFiles == 2        \* files in the content directory, createPost specification
MaxStatements == 3   \* statements in the content config, parser specification
MaxSchemaFields == 3 \* fields in the schema text, schema analysis specification
MaxLiteralLength == 3 \* characters of the string literal, reconstruction specification

----------------------------------------------------------------------------
(* JavaScript values *)

Str(chars) == [k |-> "string", s |-> chars, n |-> 0]
Num(i) == [k |-> "number", s |-> <<>>, n |-> i]
Bool(b) == [k |-> "boolean", s |-> <<>>, n |-> IF b THEN 1 ELSE 0]
Arr(elems) == [k |-> "array", s |-> elems, n |-> 0]
Obj(keys) == [k |-> "object", s |-> keys, n |-> 0]
NullV == [k |-> "null", s |-> <<>>, n |-> 0]
DateV(instant) == [k |-> "date", s |-> <<>>, n |-> instant]

\* typeof value
TypeOf(v) ==
    IF v.k \in {"string", "number", "boolean"} THEN v.k ELSE "object"

\* value instanceof Date
InstanceOfDate(v) == v.k = "date"

\* typeof v === 'object' && v !== null && Object.keys(v).length === 0
\* (Object.keys of an array are its indices, of a Date there are none)
IsEmptyObjectValue(v) ==
    /\ TypeOf(v) = "object"
    /\ v.k # "null"
    /\ (v.k \in {"object", "array"} => Len(v.s) = 0)

\* Array.prototype.includes (SameValueZero): primitives compare by value,
\* objects by reference, and values parsed from different files never share
\* a reference
IsPrimitive(v) == v.k \in {"string", "number", "boolean", "null"}

Includes(arr, v) == IsPrimitive(v) /\ \E i \in DOMAIN arr : arr[i] = v

SeqIncludes(arr, x) == \E i \in DOMAIN arr : arr[i] = x

----------------------------------------------------------------------------
(* Maps with insertion order: Record<string, any> *)

Keys(m) == {m[i].name : i \in DOMAIN m}

Has(m, key) == \E i \in DOMAIN m : m[i].name = key

IndexOfKey(m, key) == CHOOSE i \in DOMAIN m : m[i].name = key

Get(m, key) == m[IndexOfKey(m, key)].value

\* m[key] = value
Put(m, key, value) ==
    IF Has(m, key)
    THEN [m EXCEPT ![IndexOfKey(m, key)] = [name |-> key, value |-> value]]
    ELSE Append(m, [name |-> key, value |-> value])

E(name, value) == [name |-> name, value |-> value]

----------------------------------------------------------------------------
(* Strings and dates *)

Digits == {"0", "1", "2", "3", "4", "5", "6", "7", "8", "9"}

DigitChar(d) ==
    CASE d = 0 -> "0" [] d = 1 -> "1" [] d = 2 -> "2" [] d = 3 -> "3"
      [] d = 4 -> "4" [] d = 5 -> "5" [] d = 6 -> "6" [] d = 7 -> "7"
      [] d = 8 -> "8" [] d = 9 -> "9"

Pad2(i) == <<DigitChar(i \div 10), DigitChar(i % 10)>>

\* /^\d{4}-\d{2}-\d{2}$/.test(chars)
IsSimpleDateFormat(chars) ==
    /\ Len(chars) = 10
    /\ chars[5] = "-"
    /\ chars[8] = "-"
    /\ \A i \in {1, 2, 3, 4, 6, 7, 9, 10} : chars[i] \in Digits

\* the shape of Date.prototype.toISOString(): YYYY-MM-DDTHH:mm:ss.sssZ
IsISOTimestamp(chars) ==
    /\ Len(chars) = 24
    /\ IsSimpleDateFormat(SubSeq(chars, 1, 10))
    /\ chars[11] = "T"
    /\ chars[14] = ":" /\ chars[17] = ":" /\ chars[20] = "." /\ chars[24] = "Z"
    /\ \A i \in {12, 13, 15, 16, 18, 19, 21, 22, 23} : chars[i] \in Digits

\* An instant is a number of minutes since 2025-01-01T00:00:00.000Z, within 2025.
DaysBeforeMonth == <<0, 31, 59, 90, 120, 151, 181, 212, 243, 273, 304, 334, 365>>

MonthOf(dayOfYear) ==
    CHOOSE m \in 1..12 :
        DaysBeforeMonth[m] <= dayOfYear /\ dayOfYear < DaysBeforeMonth[m + 1]

\* Date.prototype.toISOString()
ToISOString(instant) ==
    LET dayOfYear == instant \div 1440
        minuteOfDay == instant % 1440
        month == MonthOf(dayOfYear)
        day == dayOfYear - DaysBeforeMonth[month] + 1
    IN  <<"2", "0", "2", "5", "-">> \o Pad2(month) \o <<"-">> \o Pad2(day)
        \o <<"T">> \o Pad2(minuteOfDay \div 60) \o <<":">> \o Pad2(minuteOfDay % 60)
        \o <<":", "0", "0", ".", "0", "0", "0", "Z">>

\* chars.split('T')[0]
SplitT0(chars) ==
    IF \E i \in DOMAIN chars : chars[i] = "T"
    THEN SubSeq(chars, 1, (CHOOSE i \in DOMAIN chars :
                              /\ chars[i] = "T"
                              /\ \A j \in 1..(i - 1) : chars[j] # "T") - 1)
    ELSE chars

\* String.prototype.toLowerCase() on the field names of the model
ToLowerCase(name) ==
    CASE name = "publishedAt" -> "publishedat"
      [] name = "publishDate" -> "publishdate"
      [] name = "updatedAt" -> "updatedat"
      [] name = "heroImage" -> "heroimage"
      [] name = "Date" -> "date"
      [] name = "Title" -> "title"
      [] name = "Published" -> "published"
      [] OTHER -> name

\* the readings of the clock: new Date()
Clock == {20 * 1440 + 615, 200 * 1440 + 5}

----------------------------------------------------------------------------
(* pattern-detection.ts: the statistical pattern learner *)

MaxPostsDefault == 10

\* rationals for the frequency thresholds 0.8 and 0.2
RequiredThreshold == [num |-> 4, den |-> 5]
OptionalThreshold == [num |-> 1, den |-> 5]

\* frequency >= threshold
AtLeast(frequency, threshold) ==
    frequency.num * threshold.den >= threshold.num * frequency.den

HasField(fieldFrequency, fieldName) ==
    \E i \in DOMAIN fieldFrequency : fieldFrequency[i].fieldName = fieldName

\* pattern.commonFields.find(f => f.fieldName === fieldName)
FindField(fields, fieldName) ==
    fields[CHOOSE i \in DOMAIN fields : fields[i].fieldName = fieldName]

\* mutation: one example is kept for a field instead of three
CountEntry_OneExample(fieldFrequency, fieldName, value) ==
    LET ff == IF HasField(fieldFrequency, fieldName)
              THEN fieldFrequency
              ELSE Append(fieldFrequency,
                          [fieldName |-> fieldName,
                           frequency |-> [num |-> 0, den |-> 1],
                           types |-> <<>>,
                           examples |-> <<>>])
        i == CHOOSE j \in DOMAIN ff : ff[j].fieldName = fieldName
        pattern == ff[i]
        valueType == IF value.k = "array" THEN "array" ELSE TypeOf(value)
    IN  [ff EXCEPT ![i] =
            [fieldName |-> fieldName,
             frequency |-> [num |-> pattern.frequency.num + 1, den |-> 1],
             types |-> IF SeqIncludes(pattern.types, valueType)
                       THEN pattern.types
                       ELSE Append(pattern.types, valueType),
             examples |-> IF Len(pattern.examples) < 1 /\ ~Includes(pattern.examples, value)
                          THEN Append(pattern.examples, value)
                          ELSE pattern.examples]]

\* the body of the inner loop of analyzeFrontmatterPatterns, for one entry
CountEntry(fieldFrequency, fieldName, value) ==
    LET ff == IF HasField(fieldFrequency, fieldName)
              THEN fieldFrequency
              ELSE Append(fieldFrequency,
                          [fieldName |-> fieldName,
                           frequency |-> [num |-> 0, den |-> 1],
                           types |-> <<>>,
                           examples |-> <<>>])
        i == CHOOSE j \in DOMAIN ff : ff[j].fieldName = fieldName
        pattern == ff[i]
        valueType == IF value.k = "array" THEN "array" ELSE TypeOf(value)
    IN  [ff EXCEPT ![i] =
            [fieldName |-> fieldName,
             frequency |-> [num |-> pattern.frequency.num + 1, den |-> 1],
             types |-> IF SeqIncludes(pattern.types, valueType)
                       THEN pattern.types
                       ELSE Append(pattern.types, valueType),
             examples |-> IF Len(pattern.examples) < 3 /\ ~Includes(pattern.examples, value)
                          THEN Append(pattern.examples, value)
                          ELSE pattern.examples]]

RECURSIVE CountSample(_, _, _)
CountSample(fieldFrequency, sample, j) ==
    IF j > Len(sample) THEN fieldFrequency
    ELSE CountSample(CountEntry(fieldFrequency, sample[j].name, sample[j].value),
                     sample, j + 1)

RECURSIVE CountSamples(_, _, _)
CountSamples(fieldFrequency, samples, i) ==
    IF i > Len(samples) THEN fieldFrequency
    ELSE CountSamples(CountSample(fieldFrequency, samples[i], 1), samples, i + 1)

\* pattern.frequency = pattern.frequency / totalPosts
Normalize(fieldFrequency, totalPosts) ==
    [i \in DOMAIN fieldFrequency |->
        [fieldFrequency[i] EXCEPT !.frequency =
            [num |-> fieldFrequency[i].frequency.num, den |-> totalPosts]]]

FieldNamesOf(fields) == [i \in DOMAIN fields |-> fields[i].fieldName]

\* mutation: frequency > 0.8 instead of >= 0.8
IsRequiredTier_Strict(field) ==
    field.frequency.num * RequiredThreshold.den > RequiredThreshold.num * field.frequency.den

IsRequiredTier(field) == AtLeast(field.frequency, RequiredThreshold)

IsOptionalTier(field) ==
    ~AtLeast(field.frequency, RequiredThreshold) /\ AtLeast(field.frequency, OptionalThreshold)

IsRareTier(field) ==
    ~AtLeast(field.frequency, RequiredThreshold) /\ ~AtLeast(field.frequency, OptionalThreshold)

\* confidences, in tenths
LowSampleConfidence == 5
BaseConfidence == 6
TitleBonus == 2
DateBonus == 2
RequiredCountBonus == 1
SampleCountBonus == 1
MaxConfidence == 10

Min(a, b) == IF a <= b THEN a ELSE b

ConfidenceDateNames == {"date", "publishedAt", "publishDate"}

\* the bonuses of calculateConfidence, before the cap
ConfidenceSum(fields, totalPosts, sampleBonus) ==
    LET requiredFieldCount ==
            Cardinality({i \in DOMAIN fields :
                            AtLeast(fields[i].frequency, RequiredThreshold)})
        hasTitle == \E i \in DOMAIN fields :
                        /\ fields[i].fieldName = "title"
                        /\ AtLeast(fields[i].frequency, RequiredThreshold)
        hasDate == \E i \in DOMAIN fields :
                        /\ fields[i].fieldName \in ConfidenceDateNames
                        /\ AtLeast(fields[i].frequency, RequiredThreshold)
    IN  BaseConfidence
        + (IF hasTitle THEN TitleBonus ELSE 0)
        + (IF hasDate THEN DateBonus ELSE 0)
        + (IF requiredFieldCount >= 3 THEN RequiredCountBonus ELSE 0)
        + (IF sampleBonus THEN SampleCountBonus ELSE 0)

\* mutation: the sum is not capped at 1.0
calculateConfidence_NoCap(fields, totalPosts) ==
    IF totalPosts < 2 THEN LowSampleConfidence
    ELSE ConfidenceSum(fields, totalPosts, totalPosts >= 5)

\* mutation: no early return for fewer than 2 samples
calculateConfidence_NoLowSampleGuard(fields, totalPosts) ==
    Min(ConfidenceSum(fields, totalPosts, totalPosts >= 5), MaxConfidence)

\* mutation: the sample bonus is given below 5 samples instead of from 5 on
calculateConfidence_FlippedSampleBonus(fields, totalPosts) ==
    IF totalPosts < 2 THEN LowSampleConfidence
    ELSE Min(ConfidenceSum(fields, totalPosts, totalPosts < 5), MaxConfidence)

calculateConfidence(fields, totalPosts) ==
    IF totalPosts < 2 THEN LowSampleConfidence
    ELSE Min(ConfidenceSum(fields, totalPosts, totalPosts >= 5), MaxConfidence)

analyzeFrontmatterPatterns(samples) ==
    LET totalPosts == Len(samples)
        commonFields == Normalize(CountSamples(<<>>, samples, 1), totalPosts)
    IN  [commonFields |-> commonFields,
         requiredFields |-> FieldNamesOf(SelectSeq(commonFields, IsRequiredTier)),
         optionalFields |-> FieldNamesOf(SelectSeq(commonFields, IsOptionalTier)),
         rareFields |-> FieldNamesOf(SelectSeq(commonFields, IsRareTier)),
         totalPosts |-> totalPosts,
         confidence |-> calculateConfidence(commonFields, totalPosts)]

\* mutation: the empty-object check is missing
shouldSkipField_Never(fieldName, fieldPattern) == FALSE

shouldSkipField(fieldName, fieldPattern) ==
    /\ SeqIncludes(fieldPattern.types, "object")
    /\ \A i \in DOMAIN fieldPattern.examples :
          IsEmptyObjectValue(fieldPattern.examples[i])

getDateValueMatchingPattern(pattern, now) ==
    LET hasStringDates == \E i \in DOMAIN pattern.examples :
                              TypeOf(pattern.examples[i]) = "string"
        hasDateObjects == \E i \in DOMAIN pattern.examples :
                              InstanceOfDate(pattern.examples[i])
        isSimpleDateFormat ==
            \E i \in DOMAIN pattern.examples :
                /\ TypeOf(pattern.examples[i]) = "string"
                /\ IsSimpleDateFormat(pattern.examples[i].s)
    IN  IF hasStringDates /\ ~hasDateObjects
        THEN IF isSimpleDateFormat
             THEN Str(SplitT0(ToISOString(now)))
             ELSE Str(ToISOString(now))
        ELSE DateV(now)

DateLikeNames ==
    {"date", "publishedat", "publishdate", "created", "updatedat", "modified", "lastmod"}

\* mutation: the field name is matched as written, not lower-cased
getDefaultValueForField_CaseSensitive(fieldName, pattern, now) ==
    LET primaryType == pattern.types[1]
        lower == fieldName
    IN  CASE lower = "title" -> Str(<<>>)
          [] lower \in DateLikeNames -> getDateValueMatchingPattern(pattern, now)
          [] lower = "draft" -> Bool(TRUE)
          [] lower \in {"tags", "categories"} -> Arr(<<>>)
          [] lower \in {"author", "description"} -> Str(<<>>)
          [] lower = "published" -> Bool(FALSE)
          [] OTHER ->
                CASE primaryType = "boolean" -> Bool(FALSE)
                  [] primaryType = "number" -> Num(0)
                  [] primaryType = "array" -> Arr(<<>>)
                  [] primaryType = "object" -> Obj(<<>>)
                  [] OTHER -> Str(<<>>)

getDefaultValueForField(fieldName, pattern, now) ==
    LET primaryType == pattern.types[1]
        lower == ToLowerCase(fieldName)
    IN  CASE lower = "title" -> Str(<<>>)
          [] lower \in DateLikeNames -> getDateValueMatchingPattern(pattern, now)
          [] lower = "draft" -> Bool(TRUE)
          [] lower \in {"tags", "categories"} -> Arr(<<>>)
          [] lower \in {"author", "description"} -> Str(<<>>)
          [] lower = "published" -> Bool(FALSE)
          [] OTHER ->
                CASE primaryType = "boolean" -> Bool(FALSE)
                  [] primaryType = "number" -> Num(0)
                  [] primaryType = "array" -> Arr(<<>>)
                  [] primaryType = "object" -> Obj(<<>>)
                  [] OTHER -> Str(<<>>)

\* one of the two loops of generateTemplate
RECURSIVE AddTemplateFields(_, _, _, _, _)
AddTemplateFields(template, fieldNames, pattern, now, i) ==
    IF i > Len(fieldNames) THEN template
    ELSE
        LET fieldName == fieldNames[i]
            fieldPattern == FindField(pattern.commonFields, fieldName)
        IN  AddTemplateFields(
                IF shouldSkipField(fieldName, fieldPattern)
                THEN template
                ELSE Put(template, fieldName,
                         getDefaultValueForField(fieldName, fieldPattern, now)),
                fieldNames, pattern, now, i + 1)

generateTemplate(pattern, now) ==
    AddTemplateFields(AddTemplateFields(<<>>, pattern.requiredFields, pattern, now, 1),
                      pattern.optionalFields, pattern, now, 1)

Failure(message) ==
    [pattern |-> <<>>, success |-> FALSE, message |-> message, suggestedTemplate |-> <<>>]

IsMarkdown(file) == file.ext = "md"

\* matter(content) did not throw and parsed.data has at least one key
HasFrontmatter(file) == file.parse = "ok" /\ Len(file.data) > 0

\* mutation: a file that fails to parse ends the sampling with nothing
FrontmatterSamples_AbortOnMalformed(fileList, maxPosts) ==
    LET markdown == SelectSeq(fileList, IsMarkdown)
        markdownFiles == SubSeq(markdown, 1, Min(Len(markdown), maxPosts))
        parsed == SelectSeq(markdownFiles, HasFrontmatter)
    IN  IF \E i \in DOMAIN markdownFiles : markdownFiles[i].parse # "ok" THEN <<>>
        ELSE [i \in DOMAIN parsed |-> parsed[i].data]

\* the frontmatterSamples of detectFrontmatterPattern
FrontmatterSamples(fileList, maxPosts) ==
    LET markdown == SelectSeq(fileList, IsMarkdown)
        markdownFiles == SubSeq(markdown, 1, Min(Len(markdown), maxPosts))
        parsed == SelectSeq(markdownFiles, HasFrontmatter)
    IN  [i \in DOMAIN parsed |-> parsed[i].data]

\* mutation: the check for an empty sample list is missing
detectFrontmatterPattern_NoEmptySamplesCheck(exists, fileList, maxPosts, now) ==
    LET markdown == SelectSeq(fileList, IsMarkdown)
        frontmatterSamples == FrontmatterSamples(fileList, maxPosts)
        pattern == analyzeFrontmatterPatterns(frontmatterSamples)
    IN  IF ~exists THEN Failure("Directory not found")
        ELSE IF Len(markdown) = 0 \/ maxPosts = 0
             THEN Failure("No markdown files found to analyze")
        ELSE [pattern |-> <<pattern>>,
              success |-> TRUE,
              message |-> "Analyzed",
              suggestedTemplate |-> <<generateTemplate(pattern, now)>>]

detectFrontmatterPattern(exists, fileList, maxPosts, now) ==
    LET markdown == SelectSeq(fileList, IsMarkdown)
        frontmatterSamples == FrontmatterSamples(fileList, maxPosts)
        pattern == analyzeFrontmatterPatterns(frontmatterSamples)
    IN  IF ~exists THEN Failure("Directory not found")
        ELSE IF Len(markdown) = 0 \/ maxPosts = 0
             THEN Failure("No markdown files found to analyze")
        ELSE IF Len(frontmatterSamples) = 0
             THEN Failure("No valid frontmatter found in existing posts")
        ELSE [pattern |-> <<pattern>>,
              success |-> TRUE,
              message |-> "Analyzed",
              suggestedTemplate |-> <<generateTemplate(pattern, now)>>]

----------------------------------------------------------------------------
(* astro-schema-analyzer.ts: what framework detection and createPost use *)

\* analyzeConfig: the AstroSchemaAnalysis {collections, success, message}.
\* project.collections is what parseConfigFromSource returns for the
\* project's src/content/config.ts.
isAstroProject(proj) == "package.json" \in proj.paths /\ "astro" \in proj.deps

analyzeConfig(proj) ==
    IF "src/content/config.ts" \notin proj.paths
    THEN [collections |-> <<>>, success |-> FALSE, message |-> "No Astro content config found"]
    ELSE IF ~isAstroProject(proj)
    THEN [collections |-> <<>>, success |-> FALSE, message |-> "Not an Astro project"]
    ELSE [collections |-> proj.collections, success |-> TRUE, message |-> "Successfully analyzed"]

\* field.name.toLowerCase().includes('image') || ...includes('cover')
NameMentionsImageOrCover(name) == ToLowerCase(name) \in {"heroimage", "cover", "image"}

getPlaceholderValue(field, now) ==
    CASE field.type = "string" -> Str(<<>>)
      [] field.type = "number" -> Num(0)
      [] field.type = "boolean" -> Bool(FALSE)
      [] field.type = "date" -> DateV(now)
      [] field.type = "array" -> Arr(<<>>)
      [] field.type = "image" -> Obj(<<"src", "alt">>)
      [] field.type = "object" ->
            IF NameMentionsImageOrCover(field.name) THEN Obj(<<"src", "alt">>) ELSE Obj(<<>>)
      [] OTHER -> Str(<<>>)

RECURSIVE AddCollectionFields(_, _, _, _)
AddCollectionFields(template, fields, now, i) ==
    IF i > Len(fields) THEN template
    ELSE
        LET field == fields[i]
        IN  AddCollectionFields(
                IF ~field.required /\ Len(field.defaultValue) = 0 THEN template
                ELSE IF Len(field.defaultValue) > 0
                     THEN Put(template, field.name, field.defaultValue[1])
                     ELSE Put(template, field.name, getPlaceholderValue(field, now)),
                fields, now, i + 1)

\* mutation: only the required fields are visited
astroGenerateTemplate_RequiredOnly(collection, now) ==
    AddCollectionFields(<<>>, SelectSeq(collection.fields, LAMBDA f : f.required), now, 1)

\* AstroSchemaAnalyzer.generateTemplate
astroGenerateTemplate(collection, now) == AddCollectionFields(<<>>, collection.fields, now, 1)

----------------------------------------------------------------------------
(* framework-detection.ts; confidences in tenths *)

FirstExists(proj, names) == \E name \in names : name \in proj.paths

HasDep(proj, dep) == "package.json" \in proj.paths /\ dep \in proj.deps

TodayString(now) == Str(SplitT0(ToISOString(now)))

FrameworkInfo(name, confidence, defaultDir, template, dateField, draftField, publishedField) ==
    [name |-> name,
     confidence |-> Min(confidence, MaxConfidence),
     contentConfig |-> [defaultDir |-> defaultDir,
                        frontmatterTemplate |-> template,
                        dateField |-> dateField,
                        draftField |-> draftField,
                        publishedField |-> publishedField]]

AstroDefaultTemplate(now) ==
    <<E("title", Str(<<>>)), E("description", Str(<<>>)), E("publishedAt", DateV(now)),
      E("updatedAt", DateV(now)), E("tags", Arr(<<>>)), E("draft", Bool(FALSE))>>

detectAstroWithCollections(proj, preferredDateFormat, now) ==
    LET confidence ==
              (IF FirstExists(proj, {"astro.config.mjs", "astro.config.ts", "astro.config.js"})
               THEN 4 ELSE 0)
            + (IF HasDep(proj, "astro") THEN 4 ELSE 0)
            + (IF "src/content" \in proj.paths THEN 2 ELSE 0)
        astroAnalysis == analyzeConfig(proj)
        analysed == astroAnalysis.success /\ Len(astroAnalysis.collections) > 0
        collections == IF analysed THEN astroAnalysis.collections ELSE <<>>
        defaultTemplate == IF analysed
                           THEN astroGenerateTemplate(collections[1], now)
                           ELSE AstroDefaultTemplate(now)
        defaultDir == IF analysed THEN collections[1].defaultDir ELSE "src/content/blog"
    IN  IF confidence = 0
        THEN [framework |-> <<>>, schemaAnalysis |-> <<>>, collections |-> <<>>]
        ELSE [framework |-> <<FrameworkInfo("Astro",
                                            confidence + (IF analysed THEN 3 ELSE 0),
                                            defaultDir, defaultTemplate,
                                            "publishedAt", <<"draft">>, <<>>)>>,
              schemaAnalysis |-> IF astroAnalysis.success THEN <<astroAnalysis>> ELSE <<>>,
              collections |-> collections]

detectHugo(proj, now) ==
    LET confidence ==
              (IF FirstExists(proj, {"hugo.toml", "hugo.yaml", "hugo.json",
                                     "config.toml", "config.yaml", "config.json"})
               THEN 5 ELSE 0)
            + (IF "content" \in proj.paths THEN 3 ELSE 0)
            + (IF "themes" \in proj.paths THEN 2 ELSE 0)
    IN  IF confidence = 0 THEN <<>>
        ELSE <<FrameworkInfo("Hugo", confidence, "content/posts",
                  <<E("title", Str(<<>>)), E("publishDate", TodayString(now)),
                    E("lastmod", TodayString(now)), E("description", Str(<<>>)),
                    E("categories", Arr(<<>>)), E("tags", Arr(<<>>)),
                    E("draft", Bool(FALSE))>>,
                  "publishDate", <<"draft">>, <<>>)>>

detectJekyll(proj, now) ==
    LET confidence ==
              (IF "_config.yml" \in proj.paths THEN 5 ELSE 0)
            + (IF "_posts" \in proj.paths THEN 3 ELSE 0)
            + (IF "Gemfile" \in proj.paths THEN 2 ELSE 0)
    IN  IF confidence = 0 THEN <<>>
        ELSE <<FrameworkInfo("Jekyll", confidence, "_posts",
                  <<E("layout", Str(<<"p", "o", "s", "t">>)), E("title", Str(<<>>)),
                    E("date", TodayString(now)), E("categories", Arr(<<>>)),
                    E("tags", Arr(<<>>)), E("published", Bool(TRUE))>>,
                  "date", <<>>, <<"published">>)>>

\* the frontmatterTemplate shared by Eleventy, Next.js and Gatsby
PlainDateTemplate(now) ==
    <<E("title", Str(<<>>)), E("date", TodayString(now)), E("description", Str(<<>>)),
      E("tags", Arr(<<>>)), E("draft", Bool(FALSE))>>

detectEleventy(proj, now) ==
    LET confidence ==
              (IF FirstExists(proj, {".eleventy.js", "eleventy.config.js", ".eleventy.config.js"})
               THEN 5 ELSE 0)
            + (IF HasDep(proj, "@11ty/eleventy") THEN 4 ELSE 0)
    IN  IF confidence = 0 THEN <<>>
        ELSE <<FrameworkInfo("Eleventy", confidence, "src/posts", PlainDateTemplate(now),
                             "date", <<"draft">>, <<>>)>>

detectNextJS(proj, now) ==
    LET confidence ==
              (IF FirstExists(proj, {"next.config.js", "next.config.mjs", "next.config.ts"})
               THEN 4 ELSE 0)
            + (IF HasDep(proj, "next") THEN 5 ELSE 0)
    IN  IF confidence = 0 THEN <<>>
        ELSE <<FrameworkInfo("Next.js", confidence, "posts", PlainDateTemplate(now),
                             "date", <<"draft">>, <<>>)>>

detectGatsby(proj, now) ==
    LET confidence ==
              (IF FirstExists(proj, {"gatsby-config.js", "gatsby-config.ts"}) THEN 5 ELSE 0)
            + (IF HasDep(proj, "gatsby") THEN 4 ELSE 0)
    IN  IF confidence = 0 THEN <<>>
        ELSE <<FrameworkInfo("Gatsby", confidence, "content/blog", PlainDateTemplate(now),
                             "date", <<"draft">>, <<>>)>>

\* frameworks.sort((a, b) => b.confidence - a.confidence): stable, descending
RECURSIVE InsertByConfidence(_, _)
InsertByConfidence(sorted, info) ==
    IF Len(sorted) = 0 THEN <<info>>
    ELSE IF sorted[Len(sorted)].confidence >= info.confidence
         THEN Append(sorted, info)
         ELSE Append(InsertByConfidence(SubSeq(sorted, 1, Len(sorted) - 1), info),
                     sorted[Len(sorted)])

RECURSIVE SortByConfidence(_, _, _)
SortByConfidence(sorted, frameworks, i) ==
    IF i > Len(frameworks) THEN sorted
    ELSE SortByConfidence(InsertByConfidence(sorted, frameworks[i]), frameworks, i + 1)

detectFramework(proj, preferredDateFormat, now) ==
    LET astroResult == detectAstroWithCollections(proj, preferredDateFormat, now)
        frameworks ==
            SortByConfidence(<<>>,
                astroResult.framework \o detectHugo(proj, now) \o detectJekyll(proj, now)
                \o detectEleventy(proj, now) \o detectNextJS(proj, now)
                \o detectGatsby(proj, now), 1)
        primary == IF Len(frameworks) > 0 THEN <<frameworks[1]>> ELSE <<>>
    IN  [frameworks |-> frameworks,
         primary |-> primary,
         contentDir |-> IF Len(primary) > 0 THEN primary[1].contentConfig.defaultDir
                        ELSE "src/content/blog",
         suggestedTemplate |-> IF Len(primary) > 0
                               THEN <<primary[1].contentConfig.frontmatterTemplate>>
                               ELSE <<>>,
         schemaAnalysis |-> IF Len(primary) > 0 /\ primary[1].name = "Astro"
                            THEN astroResult.schemaAnalysis ELSE <<>>,
         astroCollections |-> astroResult.collections]

----------------------------------------------------------------------------
(* index.ts: conflict resolution and createPost *)

IsEmptyObjectConflict(schemaField, value) ==
    /\ schemaField.type \in {"image", "object"}
    /\ ~schemaField.required
    /\ IsEmptyObjectValue(value)

\* schemaAnalysis is the record detectFramework hands over.  The function
\* reads schemaAnalysis.fields; a record without that property makes
\* !schemaAnalysis.fields true.
detectSchemaConflicts(patternTemplate, schemaAnalysis) ==
    IF "fields" \notin DOMAIN schemaAnalysis THEN FALSE
    ELSE \E i \in DOMAIN patternTemplate :
            /\ \E j \in DOMAIN schemaAnalysis.fields :
                  schemaAnalysis.fields[j].name = patternTemplate[i].name
            /\ LET j == CHOOSE jj \in DOMAIN schemaAnalysis.fields :
                           /\ schemaAnalysis.fields[jj].name = patternTemplate[i].name
                           /\ \A kk \in 1..(jj - 1) :
                                 schemaAnalysis.fields[kk].name # patternTemplate[i].name
               IN  IsEmptyObjectConflict(schemaAnalysis.fields[j], patternTemplate[i].value)

\* mutation: the confidence comparison is missing
shouldPreferFrameworkOverPattern_NoConfidenceRule(patternDetection, fwDetection) ==
    IF Len(fwDetection.primary) = 0 THEN FALSE
    ELSE IF ~patternDetection.success \/ Len(patternDetection.suggestedTemplate) = 0 THEN TRUE
    ELSE /\ Len(fwDetection.schemaAnalysis) > 0
         /\ fwDetection.schemaAnalysis[1].success
         /\ detectSchemaConflicts(patternDetection.suggestedTemplate[1],
                                  fwDetection.schemaAnalysis[1])

shouldPreferFrameworkOverPattern(patternDetection, fwDetection) ==
    IF Len(fwDetection.primary) = 0 THEN FALSE
    ELSE IF ~patternDetection.success \/ Len(patternDetection.suggestedTemplate) = 0 THEN TRUE
    ELSE IF /\ Len(fwDetection.schemaAnalysis) > 0
            /\ fwDetection.schemaAnalysis[1].success
            /\ detectSchemaConflicts(patternDetection.suggestedTemplate[1],
                                     fwDetection.schemaAnalysis[1])
         THEN TRUE
    ELSE /\ Len(patternDetection.pattern) > 0
         /\ patternDetection.pattern[1].confidence # 0
         /\ fwDetection.primary[1].confidence # 0
         /\ patternDetection.pattern[1].confidence < 7
         /\ fwDetection.primary[1].confidence > 8

CreatePostDateNames ==
    {"date", "publishedat", "publishdate", "created", "updatedat", "modified", "lastmod"}

\* the preferredDateFormat createPost derives from the detection: <<>> is undefined
PreferredDateFormat(patternDetection) ==
    IF ~(patternDetection.success /\ Len(patternDetection.pattern) > 0) THEN <<>>
    ELSE
        LET fields == patternDetection.pattern[1].commonFields
            dateFields == {i \in DOMAIN fields :
                              ToLowerCase(fields[i].fieldName) \in CreatePostDateNames}
            hasStringDates == \E i \in dateFields : \E j \in DOMAIN fields[i].examples :
                                  TypeOf(fields[i].examples[j]) = "string"
            hasDateObjects == \E i \in dateFields : \E j \in DOMAIN fields[i].examples :
                                  InstanceOfDate(fields[i].examples[j])
        IN  IF dateFields = {} THEN <<>>
            ELSE IF hasStringDates /\ ~hasDateObjects THEN <<"string">>
            ELSE IF hasDateObjects /\ ~hasStringDates THEN <<"date">>
            ELSE <<>>

\* mutation: the title of the template is kept
OverrideWithUserValues_KeepTitle(template, options) ==
    LET f2 == IF Len(options.author) > 0 THEN Put(template, "author", Str(options.author))
              ELSE template
        f3 == IF Len(options.tags) > 0 THEN Put(f2, "tags", Arr(options.tags)) ELSE f2
    IN  IF Len(options.description) > 0
        THEN Put(f3, "description", Str(options.description)) ELSE f3

\* "Override with user-provided values"
OverrideWithUserValues(template, options) ==
    LET f1 == Put(template, "title", Str(options.title))
        f2 == IF Len(options.author) > 0 THEN Put(f1, "author", Str(options.author)) ELSE f1
        f3 == IF Len(options.tags) > 0 THEN Put(f2, "tags", Arr(options.tags)) ELSE f2
    IN  IF Len(options.description) > 0
        THEN Put(f3, "description", Str(options.description)) ELSE f3

\* the branch of createPost that starts from the detected pattern's template
PatternFrontmatter(template, options, now) ==
    LET f1 == OverrideWithUserValues(template, options)
        f2 == IF Has(f1, "draft") THEN Put(f1, "draft", Bool(options.draft))
              ELSE IF Has(f1, "published") THEN Put(f1, "published", Bool(~options.draft))
              ELSE f1
    IN  IF Has(f2, "date") THEN Put(f2, "date", DateV(now))
        ELSE IF Has(f2, "publishedAt") THEN Put(f2, "publishedAt", DateV(now))
        ELSE IF Has(f2, "publishDate") THEN Put(f2, "publishDate", DateV(now))
        ELSE f2

\* astroCollections.find(c => c.name === options.collectionName)
FindCollection(collections, collectionName) ==
    LET hits == {i \in DOMAIN collections : <<collections[i].name>> = collectionName}
    IN  IF hits = {} THEN <<>>
        ELSE <<collections[CHOOSE i \in hits : \A j \in hits : i <= j]>>

\* the branch of createPost that starts from the framework's template
FrameworkFrontmatter(fwDetection, options, now) ==
    LET primary == fwDetection.primary[1]
        config == primary.contentConfig
        selectedCollection ==
            IF /\ primary.name = "Astro"
               /\ Len(fwDetection.astroCollections) > 0
               /\ Len(options.collectionName) > 0
            THEN FindCollection(fwDetection.astroCollections, options.collectionName)
            ELSE <<>>
        base == IF Len(selectedCollection) > 0
                THEN astroGenerateTemplate(selectedCollection[1], now)
                ELSE fwDetection.suggestedTemplate[1]
        f1 == OverrideWithUserValues(base, options)
        f2 == IF Len(config.draftField) > 0 /\ Has(f1, config.draftField[1])
              THEN Put(f1, config.draftField[1], Bool(options.draft))
              ELSE IF Len(config.publishedField) > 0 /\ Has(f1, config.publishedField[1])
              THEN Put(f1, config.publishedField[1], Bool(~options.draft))
              ELSE f1
    IN  [dir |-> IF Len(selectedCollection) > 0 THEN selectedCollection[1].defaultDir
                 ELSE options.contentDir,
         frontmatter |-> IF Has(f2, config.dateField)
                         THEN Put(f2, config.dateField, DateV(now)) ELSE f2]

\* mutation: the description key is left out of the default structure
DefaultFrontmatter_NoDescription(options, now) ==
    <<E("title", Str(options.title)), E("date", DateV(now)),
      E("author", Str(options.author)),
      E("tags", Arr(options.tags)), E("draft", Bool(options.draft))>>

\* "Fall back to default structure"
DefaultFrontmatter(options, now) ==
    <<E("title", Str(options.title)), E("date", DateV(now)),
      E("author", Str(options.author)), E("description", Str(options.description)),
      E("tags", Arr(options.tags)), E("draft", Bool(options.draft))>>

\* createPost from the choice on: the frontmatter it builds and the file it
\* writes
WritePost(patternDetection, fwDetection, preferFramework, options, now) ==
    [detection |-> patternDetection,
     frameworkDetection |-> fwDetection,
     useFrameworkInstead |-> preferFramework,
     post |->
        IF /\ patternDetection.success
           /\ Len(patternDetection.suggestedTemplate) > 0
           /\ ~preferFramework
        THEN [dir |-> options.contentDir,
              frontmatter |-> PatternFrontmatter(patternDetection.suggestedTemplate[1],
                                                 options, now)]
        ELSE IF Len(fwDetection.primary) > 0 /\ Len(fwDetection.suggestedTemplate) > 0
        THEN FrameworkFrontmatter(fwDetection, options, now)
        ELSE [dir |-> options.contentDir, frontmatter |-> DefaultFrontmatter(options, now)]]

\* createPost once both detections are known: the choice between them
ResolveAndWrite(patternDetection, fwDetection, options, now) ==
    WritePost(patternDetection, fwDetection,
              shouldPreferFrameworkOverPattern(patternDetection, fwDetection),
              options, now)

\* createPost once the pattern detection is known: the framework detection
DetectFrameworkAndWrite(patternDetection, proj, options, now) ==
    ResolveAndWrite(patternDetection,
                    detectFramework(proj, PreferredDateFormat(patternDetection), now),
                    options, now)

\* createPost: the detection, the framework detection, the choice and the
\* file it writes
createPost(exists, fileList, proj, options, now) ==
    DetectFrameworkAndWrite(detectFrontmatterPattern(exists, fileList, MaxPostsDefault, now),
                            proj, options, now)

----------------------------------------------------------------------------
(* Inputs: the posts a content directory may hold, projects, options *)

PlainDate == <<"2", "0", "2", "4", "-", "0", "1", "-", "1", "5">>
OtherPlainDate == <<"2", "0", "2", "3", "-", "1", "2", "-", "3", "1">>
RichDate == <<"2", "0", "2", "4", "-", "0", "2", "-", "0", "1", "T",
              "1", "0", ":", "0", "0", ":", "0", "0", "Z">>

MarkdownPost(data) == [ext |-> "md", parse |-> "ok", data |-> data]

\* title, plain string date, tags, draft
PostA ==
    MarkdownPost(<<E("title", Str(<<"A">>)), E("date", Str(PlainDate)),
                   E("tags", Arr(<<"x">>)), E("draft", Bool(FALSE))>>)

\* the shape of PostA with other values
PostA2 ==
    MarkdownPost(<<E("title", Str(<<"A", "2">>)), E("date", Str(OtherPlainDate)),
                   E("tags", Arr(<<>>)), E("draft", Bool(TRUE))>>)

\* title, date as a timestamp string, an empty heroImage object
PostB ==
    MarkdownPost(<<E("title", Str(<<"B">>)), E("date", Str(RichDate)),
                   E("heroImage", Obj(<<>>))>>)

\* publishedAt as a YAML timestamp (a Date), a filled heroImage, a number
PostC ==
    MarkdownPost(<<E("publishedAt", DateV(45 * 1440)),
                   E("heroImage", Obj(<<"src", "alt">>)), E("views", Num(3))>>)

\* no title, created as a timestamp string, an empty heroImage object
PostD ==
    MarkdownPost(<<E("author", Str(<<"A", "n", "n">>)), E("created", Str(RichDate)),
                   E("heroImage", Obj(<<>>))>>)

\* heroImage: with nothing after the colon (null)
PostE ==
    MarkdownPost(<<E("title", Str(<<"E">>)), E("heroImage", NullV)>>)

\* conventional names in other spellings and with unconventional value types,
\* and one field of each kind that has no convention
PostF ==
    MarkdownPost(<<E("Title", Num(5)), E("draft", Str(<<"n", "o">>)),
                   E("categories", Str(<<"c">>)), E("Published", Bool(TRUE)),
                   E("description", Arr(<<"d">>)), E("featured", Bool(TRUE)),
                   E("related", Arr(<<"x">>)), E("subtitle", Str(<<"s">>)),
                   E("rating", Num(4)), E("seo", Obj(<<"k">>)),
                   E("views", Str(<<"m">>))>>)

MalformedPost == [ext |-> "md", parse |-> "malformed", data |-> <<>>]
NoFrontmatterPost == [ext |-> "md", parse |-> "ok", data |-> <<>>]
TextFile == [ext |-> "txt", parse |-> "ok", data |-> <<>>]

LearnPool == {PostA, PostA2, PostC, PostD}

CreatePool == {PostA, PostB, PostC, PostD, PostE, PostF, MalformedPost, NoFrontmatterPost,
               TextFile}

SchemaField(name, type, required, defaultValue) ==
    [name |-> name, type |-> type, required |-> required, defaultValue |-> defaultValue]

BlogCollection ==
    [name |-> "blog", type |-> "content", defaultDir |-> "src/content/blog",
     fields |-> <<SchemaField("title", "string", TRUE, <<>>),
                  SchemaField("publishedAt", "date", TRUE, <<>>),
                  SchemaField("heroImage", "image", FALSE, <<>>),
                  SchemaField("tags", "array", FALSE, <<Arr(<<>>)>>),
                  SchemaField("draft", "boolean", FALSE, <<Bool(FALSE)>>)>>]

DocsCollection ==
    [name |-> "docs", type |-> "content", defaultDir |-> "src/content/docs",
     fields |-> <<SchemaField("title", "string", TRUE, <<>>),
                  SchemaField("cover", "object", TRUE, <<>>),
                  SchemaField("order", "number", FALSE, <<>>)>>]

Project(paths, deps, collections) ==
    [paths |-> paths, deps |-> deps, collections |-> collections]

NoProject == Project({}, {}, <<>>)

AstroWithSchema ==
    Project({"astro.config.mjs", "package.json", "src/content", "src/content/config.ts"},
            {"astro"}, <<BlogCollection, DocsCollection>>)

AstroWithoutSchema == Project({"astro.config.mjs", "package.json"}, {"astro"}, <<>>)

AstroEmptySchema ==
    Project({"package.json", "src/content", "src/content/config.ts"}, {"astro"}, <<>>)

HugoProject == Project({"hugo.toml", "content", "themes"}, {}, <<>>)

WeakHugoProject == Project({"content", "themes"}, {}, <<>>)

JekyllProject == Project({"_config.yml", "_posts"}, {}, <<>>)

NextProject == Project({"package.json", "next.config.js"}, {"next"}, <<>>)

MixedProject ==
    Project({"package.json", ".eleventy.js", "gatsby-config.js", "src/content"},
            {"gatsby", "@11ty/eleventy"}, <<>>)

Projects == {NoProject, AstroWithSchema, AstroWithoutSchema, AstroEmptySchema,
             HugoProject, WeakHugoProject, JekyllProject, NextProject, MixedProject}

Options(title, author, tags, draft, collectionName) ==
    [title |-> title, author |-> author, tags |-> tags, description |-> <<>>,
     draft |-> draft, contentDir |-> "src/content/blog", collectionName |-> collectionName]

NoOptions == Options(<<>>, <<>>, <<>>, TRUE, <<>>)

OptionsPool ==
    {Options(<<"N", "e", "w">>, <<>>, <<>>, TRUE, <<>>),
     Options(<<"N", "e", "w">>, <<"B", "o">>, <<"t">>, FALSE, <<>>),
     Options(<<"N", "e", "w">>, <<>>, <<>>, TRUE, <<"docs">>),
     Options(<<"N", "e", "w">>, <<>>, <<>>, TRUE, <<"news">>)}

\* the maxPosts arguments of the calls: the default
MaxPostsChoices == {MaxPostsDefault}

----------------------------------------------------------------------------
(* astro-schema-analyzer.ts: the syntax tree of the content config          *)
(*                                                                          *)
(* The config source is held as the tree @babel/parser builds from it.  A   *)
(* node is a record with the fields of its Babel type.  The text of a       *)
(* string literal, and the source text astNodeToCode rebuilds, are          *)
(* sequences of chunks: a chunk is one punctuation character, one           *)
(* character of literal text, or one whole word (an identifier, a keyword). *)

Identifier(name) == [type |-> "Identifier", name |-> name]

StringLiteral(value) == [type |-> "StringLiteral", value |-> value]

NumericLiteral(value) == [type |-> "NumericLiteral", value |-> value]

BooleanLiteral(value) == [type |-> "BooleanLiteral", value |-> value]

NullLiteral == [type |-> "NullLiteral"]

UnaryExpression(operator, argument) ==
    [type |-> "UnaryExpression", operator |-> operator, argument |-> argument]

ArrowFunctionExpression(params, body) ==
    [type |-> "ArrowFunctionExpression", params |-> params, body |-> body]

CallExpression(callee, arguments) ==
    [type |-> "CallExpression", callee |-> callee, arguments |-> arguments]

MemberExpression(object, property) ==
    [type |-> "MemberExpression", object |-> object, property |-> property]

ObjectProperty(key, value) == [type |-> "ObjectProperty", key |-> key, value |-> value]

ObjectExpression(properties) == [type |-> "ObjectExpression", properties |-> properties]

ArrayExpression(elements) == [type |-> "ArrayExpression", elements |-> elements]

VariableDeclarator(id, init) == [type |-> "VariableDeclarator", id |-> id, init |-> init]

\* const <id> = <init>
VariableDeclaration(declarations) ==
    [type |-> "VariableDeclaration", declarations |-> declarations]

\* export const <id> = <init>
ExportNamedDeclaration(declaration) ==
    [type |-> "ExportNamedDeclaration", declaration |-> declaration]

----------------------------------------------------------------------------
(* astNodeToCode: a node back to source text                                *)

Quote == "\""

\* `${code}` of a string | null
TextOf(code) == IF Len(code) = 0 THEN <<"null">> ELSE code[1]

\* parts.join(', ')
RECURSIVE JoinCode(_, _)
JoinCode(parts, i) ==
    IF i > Len(parts) THEN <<>>
    ELSE IF i = Len(parts) THEN parts[i]
    ELSE parts[i] \o <<",", " ">> \o JoinCode(parts, i + 1)

\* value.toString() of a non-negative integer literal
RECURSIVE NumberToString(_)
NumberToString(value) ==
    IF value < 10 THEN <<DigitChar(value)>>
    ELSE NumberToString(value \div 10) \o <<DigitChar(value % 10)>>

RECURSIVE astNodeToCode(_)

\* nodes.map(node => this.astNodeToCode(node)).filter(Boolean): the texts
\* of the nodes that have one (array elements are present, never elided)
RECURSIVE NodesToCode(_, _)
NodesToCode(nodes, i) ==
    IF i > Len(nodes) THEN <<>>
    ELSE astNodeToCode(nodes[i]) \o NodesToCode(nodes, i + 1)

\* the text of one property: `${key}: ${value}`, null when it is not an
\* ObjectProperty
PropertyToCode(prop) ==
    IF prop.type = "ObjectProperty"
    THEN << (IF prop.key.type = "Identifier"
             THEN <<prop.key.name>>
             ELSE <<Quote>> \o TextOf(astNodeToCode(prop.key)) \o <<Quote>>)
            \o <<":", " ">> \o TextOf(astNodeToCode(prop.value)) >>
    ELSE <<>>

RECURSIVE PropertiesToCode(_, _)
PropertiesToCode(properties, i) ==
    IF i > Len(properties) THEN <<>>
    ELSE PropertyToCode(properties[i]) \o PropertiesToCode(properties, i + 1)

\* astNodeToCode(node): <<>> is null, <<text>> the source text
astNodeToCode(node) ==
    CASE node.type = "CallExpression" ->
            << TextOf(astNodeToCode(node.callee)) \o <<"(">>
               \o JoinCode(NodesToCode(node.arguments, 1), 1) \o <<")">> >>
      [] node.type = "MemberExpression" ->
            << TextOf(astNodeToCode(node.object)) \o <<".">>
               \o (IF node.property.type = "Identifier"
                   THEN <<node.property.name>>
                   ELSE TextOf(astNodeToCode(node.property))) >>
      [] node.type = "Identifier" -> <<<<node.name>>>>
      [] node.type = "ObjectExpression" ->
            << <<"{">> \o JoinCode(PropertiesToCode(node.properties, 1), 1) \o <<"}">> >>
      [] node.type = "ArrayExpression" ->
            << <<"[">> \o JoinCode(NodesToCode(node.elements, 1), 1) \o <<"]">> >>
      [] node.type = "StringLiteral" -> << <<Quote>> \o node.value \o <<Quote>> >>
      [] node.type = "NumericLiteral" -> <<NumberToString(node.value)>>
      [] node.type = "BooleanLiteral" ->
            <<IF node.value THEN <<"true">> ELSE <<"false">>>>
      [] OTHER -> <<>>

----------------------------------------------------------------------------
(* new Function('z', `return ${schemaCode}`): the text is read again as a   *)
(* JavaScript expression                                                    *)

Punctuators == {"(", ")", "{", "}", "[", "]", ".", ",", ":"}

Token(t, v) == [t |-> t, v |-> v]

\* the number of backslashes that end right before position i
BackslashRun(code, i) ==
    IF \A j \in 1..(i - 1) : code[j] = "\\" THEN i - 1
    ELSE (i - 1) - (CHOOSE j \in 1..(i - 1) :
                        /\ code[j] # "\\"
                        /\ \A k \in (j + 1)..(i - 1) : code[k] = "\\")

\* the positions of the quotes that open or close a string literal: those
\* no backslash escapes
StringQuotes(code) ==
    {i \in DOMAIN code : code[i] = Quote /\ BackslashRun(code, i) % 2 = 0}

\* position i lies after an opening quote that is not closed before it
InsideString(quotes, i) == Cardinality({q \in quotes : q < i}) % 2 = 1

\* the value of the text between the quotes: \n is a line feed, an escaped
\* line end continues the line, any other escaped character is itself
RECURSIVE StringValue(_, _)
StringValue(text, j) ==
    IF j > Len(text) THEN <<>>
    ELSE IF text[j] = "\\"
    THEN (CASE text[j + 1] = "n" -> <<"\n">>
            [] text[j + 1] = "\n" -> <<>>
            [] OTHER -> <<text[j + 1]>>) \o StringValue(text, j + 2)
    ELSE <<text[j]>> \o StringValue(text, j + 1)

\* the string literal opened at position i: an error when it is not closed
\* on its line
StringToken(code, quotes, i) ==
    IF \A q \in quotes : q <= i THEN Token("error", code[i])
    ELSE IF \E j \in (i + 1)..Len(code) :
               /\ code[j] = "\n"
               /\ BackslashRun(code, j) % 2 = 0
               /\ \A q \in quotes : q > i => j < q
    THEN Token("error", code[i])
    ELSE Token("string",
               StringValue(SubSeq(code, i + 1,
                                  (CHOOSE q \in quotes :
                                      q > i /\ \A r \in quotes : r > i => q <= r) - 1),
                           1))

\* the number written by the digits code[i..j]
RECURSIVE DigitsValue(_, _, _)
DigitsValue(code, i, j) ==
    IF j < i THEN 0
    ELSE 10 * DigitsValue(code, i, j - 1)
         + (CHOOSE d \in 0..9 : DigitChar(d) = code[j])

RECURSIVE DigitsEnd(_, _)
DigitsEnd(code, j) ==
    IF j + 1 <= Len(code) /\ code[j + 1] \in Digits THEN DigitsEnd(code, j + 1) ELSE j

\* the token that starts at position i: "none" inside a token and at white
\* space, "error" where the text cannot be read
TokenAt(code, quotes, i) ==
    CASE InsideString(quotes, i) -> Token("none", code[i])
      [] code[i] = Quote -> StringToken(code, quotes, i)
      [] code[i] \in {" ", "\n"} -> Token("none", code[i])
      [] code[i] = "\\" -> Token("error", code[i])
      [] code[i] \in Digits ->
            IF i > 1 /\ code[i - 1] \in Digits THEN Token("none", code[i])
            ELSE Token("number", DigitsValue(code, i, DigitsEnd(code, i)))
      [] code[i] \in Punctuators -> Token("punctuator", code[i])
      [] OTHER -> Token("word", code[i])

IsToken(token) == token.t # "none"

TokensAt(code, quotes) == [i \in DOMAIN code |-> TokenAt(code, quotes, i)]

\* the tokens of the text
Lex(code) == SelectSeq(TokensAt(code, StringQuotes(code)), IsToken)

\* a step of the expression parser: the node read and the position after it
Parsed(node, next) == [ok |-> TRUE, node |-> node, next |-> next]

SyntaxError == [ok |-> FALSE, node |-> NullLiteral, next |-> 0]

IsPunctuator(tokens, i, p) ==
    i <= Len(tokens) /\ tokens[i].t = "punctuator" /\ tokens[i].v = p

IsWord(tokens, i) == i <= Len(tokens) /\ tokens[i].t = "word"

RECURSIVE ParseExpression(_, _)
RECURSIVE ParsePostfix(_, _)
RECURSIVE ParseElements(_, _, _, _)
RECURSIVE ParseProperties(_, _, _)

\* after one element of a comma-separated list
AfterElement(tokens, element, elements, close) ==
    IF ~element.ok THEN SyntaxError
    ELSE IF IsPunctuator(tokens, element.next, ",")
    THEN ParseElements(tokens, element.next + 1, Append(elements, element.node), close)
    ELSE IF IsPunctuator(tokens, element.next, close)
    THEN Parsed(Append(elements, element.node), element.next + 1)
    ELSE SyntaxError

\* arguments or array elements up to the closing bracket
ParseElements(tokens, i, elements, close) ==
    IF IsPunctuator(tokens, i, close) THEN Parsed(elements, i + 1)
    ELSE AfterElement(tokens, ParseExpression(tokens, i), elements, close)

\* after the value of one property
AfterProperty(tokens, key, value, properties) ==
    IF ~value.ok THEN SyntaxError
    ELSE IF IsPunctuator(tokens, value.next, ",")
    THEN ParseProperties(tokens, value.next + 1,
                         Append(properties, ObjectProperty(key, value.node)))
    ELSE IF IsPunctuator(tokens, value.next, "}")
    THEN Parsed(ObjectExpression(Append(properties, ObjectProperty(key, value.node))),
                value.next + 1)
    ELSE SyntaxError

\* the properties of an object literal up to the closing brace
ParseProperties(tokens, i, properties) ==
    IF IsPunctuator(tokens, i, "}") THEN Parsed(ObjectExpression(properties), i + 1)
    ELSE IF i > Len(tokens) \/ ~IsPunctuator(tokens, i + 1, ":") THEN SyntaxError
    ELSE IF tokens[i].t = "word"
    THEN AfterProperty(tokens, Identifier(tokens[i].v),
                       ParseExpression(tokens, i + 2), properties)
    ELSE IF tokens[i].t = "string"
    THEN AfterProperty(tokens, StringLiteral(tokens[i].v),
                       ParseExpression(tokens, i + 2), properties)
    ELSE IF tokens[i].t = "number"
    THEN AfterProperty(tokens, NumericLiteral(tokens[i].v),
                       ParseExpression(tokens, i + 2), properties)
    ELSE SyntaxError

\* wraps parsed arguments into the call of callee
CallOf(callee, arguments) ==
    IF arguments.ok THEN Parsed(CallExpression(callee, arguments.node), arguments.next)
    ELSE SyntaxError

\* wraps parsed elements into an array literal
ArrayOf(elements) ==
    IF elements.ok THEN Parsed(ArrayExpression(elements.node), elements.next)
    ELSE SyntaxError

ParsePrimary(tokens, i) ==
    IF i > Len(tokens) THEN SyntaxError
    ELSE IF tokens[i].t = "string" THEN Parsed(StringLiteral(tokens[i].v), i + 1)
    ELSE IF tokens[i].t = "number" THEN Parsed(NumericLiteral(tokens[i].v), i + 1)
    ELSE IF tokens[i].t = "word"
    THEN Parsed(CASE tokens[i].v = "true" -> BooleanLiteral(TRUE)
                  [] tokens[i].v = "false" -> BooleanLiteral(FALSE)
                  [] tokens[i].v = "null" -> NullLiteral
                  [] OTHER -> Identifier(tokens[i].v),
                i + 1)
    ELSE IF IsPunctuator(tokens, i, "{") THEN ParseProperties(tokens, i + 1, <<>>)
    ELSE IF IsPunctuator(tokens, i, "[") THEN ArrayOf(ParseElements(tokens, i + 1, <<>>, "]"))
    ELSE SyntaxError

\* member accesses and calls applied to the expression read so far
ParsePostfix(tokens, left) ==
    IF ~left.ok THEN SyntaxError
    ELSE IF IsPunctuator(tokens, left.next, ".")
    THEN IF IsWord(tokens, left.next + 1)
         THEN ParsePostfix(tokens,
                  Parsed(MemberExpression(left.node, Identifier(tokens[left.next + 1].v)),
                         left.next + 2))
         ELSE SyntaxError
    ELSE IF IsPunctuator(tokens, left.next, "(")
    THEN ParsePostfix(tokens,
             CallOf(left.node, ParseElements(tokens, left.next + 1, <<>>, ")")))
    ELSE left

ParseExpression(tokens, i) == ParsePostfix(tokens, ParsePrimary(tokens, i))

\* the whole text as one expression
ParseWhole(tokens, expression) ==
    IF expression.ok /\ expression.next = Len(tokens) + 1 THEN expression ELSE SyntaxError

ParseTokens(tokens) == ParseWhole(tokens, ParseExpression(tokens, 1))

\* the body `return <code>` compiled: the expression, or a SyntaxError
CompileReturn(code) == ParseTokens(Lex(code))

----------------------------------------------------------------------------
(* func(z): the expression evaluated with z bound to zod.  Only the members *)
(* of zod that the evaluator's contract names are modelled: the string,     *)
(* number, boolean, date, array and object constructors, coerce.date, and   *)
(* the optional and default modifiers.                                      *)

Undefined == [k |-> "undefined", s |-> <<>>, n |-> 0]

\* the value of an object literal: its entries in insertion order
Record(entries) == [k |-> "record", entries |-> entries]

ZodNamespace == [k |-> "z"]

ZodCoerce == [k |-> "z.coerce"]

\* object.name where it is a function
Method(name, self) == [k |-> "function", name |-> name, self |-> self]

ZodType(typeName, coerce) == [k |-> "zod", typeName |-> typeName, coerce |-> coerce]

ZodArray(type) == [k |-> "zod", typeName |-> "ZodArray", type |-> type]

ZodObject(shape) == [k |-> "zod", typeName |-> "ZodObject", shape |-> shape]

ZodOptional(innerType) == [k |-> "zod", typeName |-> "ZodOptional", innerType |-> innerType]

ZodDefault(innerType, defaultValue) ==
    [k |-> "zod", typeName |-> "ZodDefault", innerType |-> innerType,
     defaultValue |-> defaultValue]

\* an evaluation ends with a value or with an exception
Returned(v) == [ok |-> TRUE, v |-> v]

Thrown == [ok |-> FALSE, v |-> Undefined]

\* !value
Falsy(v) ==
    \/ v.k \in {"undefined", "null"}
    \/ v.k = "boolean" /\ v.n = 0
    \/ v.k = "number" /\ v.n = 0
    \/ v.k = "string" /\ Len(v.s) = 0

\* arguments[i - 1]
Argument(arguments, i) == IF i <= Len(arguments) THEN arguments[i] ELSE Undefined

\* object[name]
GetMember(object, name) ==
    CASE object.k \in {"undefined", "null"} -> Thrown
      [] object.k = "z" /\ name \in {"string", "number", "boolean", "date", "array", "object"} ->
            Returned(Method(name, object))
      [] object.k = "z" /\ name = "coerce" -> Returned(ZodCoerce)
      [] object.k = "z.coerce" /\ name = "date" -> Returned(Method(name, object))
      [] object.k = "zod" /\ name \in {"optional", "default"} -> Returned(Method(name, object))
      [] OTHER -> Returned(Undefined)

\* callee(...arguments)
Apply(callee, arguments) ==
    CASE callee.k # "function" -> Thrown
      [] callee.self.k = "z.coerce" -> Returned(ZodType("ZodDate", TRUE))
      [] callee.self.k = "z" /\ callee.name = "string" -> Returned(ZodType("ZodString", FALSE))
      [] callee.self.k = "z" /\ callee.name = "number" -> Returned(ZodType("ZodNumber", FALSE))
      [] callee.self.k = "z" /\ callee.name = "boolean" -> Returned(ZodType("ZodBoolean", FALSE))
      [] callee.self.k = "z" /\ callee.name = "date" -> Returned(ZodType("ZodDate", FALSE))
      [] callee.self.k = "z" /\ callee.name = "array" ->
            Returned(ZodArray(Argument(arguments, 1)))
      [] callee.self.k = "z" /\ callee.name = "object" ->
            Returned(ZodObject(Argument(arguments, 1)))
      [] callee.self.k = "zod" /\ callee.name = "optional" ->
            Returned(ZodOptional(callee.self))
      [] callee.self.k = "zod" /\ callee.name = "default" ->
            Returned(ZodDefault(callee.self, Argument(arguments, 1)))

\* the name a property key gives its entry
KeyName(key) == IF key.type = "Identifier" THEN key.name ELSE key.value

RECURSIVE Evaluate(_)
RECURSIVE EvaluateElements(_, _, _)
RECURSIVE EvaluateProperties(_, _, _)

AfterElementValue(nodes, i, values, result) ==
    IF result.ok THEN EvaluateElements(nodes, i + 1, Append(values, result.v)) ELSE Thrown

\* the values of the nodes, left to right
EvaluateElements(nodes, i, values) ==
    IF i > Len(nodes) THEN Returned(values)
    ELSE AfterElementValue(nodes, i, values, Evaluate(nodes[i]))

AfterPropertyValue(properties, i, entries, result) ==
    IF result.ok
    THEN EvaluateProperties(properties, i + 1,
                            Put(entries, KeyName(properties[i].key), result.v))
    ELSE Thrown

\* the entries of an object literal
EvaluateProperties(properties, i, entries) ==
    IF i > Len(properties) THEN Returned(Record(entries))
    ELSE AfterPropertyValue(properties, i, entries, Evaluate(properties[i].value))

MemberOf(object, name) == IF object.ok THEN GetMember(object.v, name) ELSE Thrown

CallOn(callee, arguments) ==
    IF callee.ok /\ arguments.ok THEN Apply(callee.v, arguments.v) ELSE Thrown

ArrayValue(elements) == IF elements.ok THEN Returned(Arr(elements.v)) ELSE Thrown

Evaluate(node) ==
    CASE node.type = "CallExpression" ->
            CallOn(Evaluate(node.callee), EvaluateElements(node.arguments, 1, <<>>))
      [] node.type = "MemberExpression" ->
            MemberOf(Evaluate(node.object), node.property.name)
      [] node.type = "Identifier" ->
            IF node.name = "z" THEN Returned(ZodNamespace)
            ELSE IF node.name = "undefined" THEN Returned(Undefined)
            ELSE Thrown
      [] node.type = "ObjectExpression" -> EvaluateProperties(node.properties, 1, <<>>)
      [] node.type = "ArrayExpression" -> ArrayValue(EvaluateElements(node.elements, 1, <<>>))
      [] node.type = "StringLiteral" -> Returned(Str(node.value))
      [] node.type = "NumericLiteral" -> Returned(Num(node.value))
      [] node.type = "BooleanLiteral" -> Returned(Bool(node.value))
      [] node.type = "NullLiteral" -> Returned(NullV)

\* what the try block yields: the value returned, null when it threw
ValueOrNull(result) == IF result.ok THEN <<result.v>> ELSE <<>>

\* func(z) of the compiled function; a SyntaxError is caught
RunCompiled(compiled) ==
    IF compiled.ok THEN ValueOrNull(Evaluate(compiled.node)) ELSE <<>>

ZodSchemaOfCode(schemaCode) ==
    IF Len(schemaCode) = 0 THEN <<>> ELSE RunCompiled(CompileReturn(schemaCode[1]))

\* astNodeToZodSchema(node): <<>> is null, <<value>> what func(z) returned
astNodeToZodSchema(node) == ZodSchemaOfCode(astNodeToCode(node))

----------------------------------------------------------------------------
(* zodToJsonSchema (zod-to-json-schema)                                     *)

JsonSchema(type) ==
    [type |-> type, format |-> <<>>, properties |-> <<>>, required |-> <<>>,
     default |-> <<>>, items |-> <<>>]

\* schema.safeParse(value).success
RECURSIVE Accepts(_, _)
Accepts(schema, value) ==
    CASE schema.k # "zod" -> FALSE
      [] schema.typeName = "ZodOptional" ->
            value.k = "undefined" \/ Accepts(schema.innerType, value)
      [] schema.typeName = "ZodDefault" ->
            Accepts(schema.innerType,
                    IF value.k = "undefined" THEN schema.defaultValue ELSE value)
      [] schema.typeName = "ZodString" -> value.k = "string"
      [] schema.typeName = "ZodNumber" -> value.k = "number"
      [] schema.typeName = "ZodBoolean" -> value.k = "boolean"
      [] schema.typeName = "ZodDate" ->
            value.k = "date" \/ (schema.coerce /\ value.k = "number")
      [] schema.typeName = "ZodArray" ->
            value.k = "array" /\ \A i \in DOMAIN value.s : Accepts(schema.type, value.s[i])
      [] schema.typeName = "ZodObject" ->
            /\ value.k = "record"
            /\ schema.shape.k = "record"
            /\ \A i \in DOMAIN schema.shape.entries :
                  Accepts(schema.shape.entries[i].value,
                          IF Has(value.entries, schema.shape.entries[i].name)
                          THEN Get(value.entries, schema.shape.entries[i].name)
                          ELSE Undefined)

\* schema.isOptional()
isOptional(schema) == Accepts(schema, Undefined)

RECURSIVE parseDef(_, _)
RECURSIVE parseObjectDef(_, _, _)

\* one member of an object schema added to the result: a member that is
\* undefined or has no _def is passed over, null has no properties to read
AddProperty(shape, i, result, member, parsed) ==
    IF member.k = "null" THEN Thrown
    ELSE IF member.k # "zod" THEN parseObjectDef(shape, i + 1, result)
    ELSE IF ~parsed.ok THEN Thrown
    ELSE parseObjectDef(shape, i + 1,
            [result EXCEPT
                !.properties = <<Put(@[1], shape[i].name, parsed.v)>>,
                !.required = IF isOptional(member) THEN @ ELSE Append(@, shape[i].name)])

parseObjectDef(shape, i, result) ==
    IF i > Len(shape) THEN Returned(result)
    ELSE AddProperty(shape, i, result, shape[i].value,
                     IF shape[i].value.k = "zod" THEN parseDef(shape[i].value, TRUE)
                     ELSE Thrown)

WithItems(items) ==
    IF items.ok THEN Returned([JsonSchema(<<"array">>) EXCEPT !.items = <<items.v>>])
    ELSE Thrown

\* anyOf: [{not: {}}, inner]: a schema without a type
AnyOf(inner) == IF inner.ok THEN Returned(JsonSchema(<<>>)) ELSE Thrown

WithDefault(inner, defaultValue) ==
    IF ~inner.ok THEN Thrown
    ELSE IF defaultValue.k = "undefined" THEN inner
    ELSE Returned([inner.v EXCEPT !.default = <<defaultValue>>])

\* parseDef: the JSON schema of a zod schema; atProperty when the schema is
\* reached as a member of an object through default wrappers only.  A value
\* that is not a zod schema has no _def to read.
parseDef(schema, atProperty) ==
    CASE schema.k # "zod" -> Thrown
      [] schema.typeName = "ZodString" -> Returned(JsonSchema(<<"string">>))
      [] schema.typeName = "ZodNumber" -> Returned(JsonSchema(<<"number">>))
      [] schema.typeName = "ZodBoolean" -> Returned(JsonSchema(<<"boolean">>))
      [] schema.typeName = "ZodDate" ->
            Returned([JsonSchema(<<"string">>) EXCEPT !.format = <<"date-time">>])
      [] schema.typeName = "ZodArray" -> WithItems(parseDef(schema.type, FALSE))
      [] schema.typeName = "ZodObject" ->
            IF schema.shape.k = "record"
            THEN parseObjectDef(schema.shape.entries, 1,
                                [JsonSchema(<<"object">>) EXCEPT !.properties = <<<<>>>>])
            ELSE Thrown
      [] schema.typeName = "ZodOptional" ->
            IF atProperty THEN parseDef(schema.innerType, TRUE)
            ELSE AnyOf(parseDef(schema.innerType, FALSE))
      [] schema.typeName = "ZodDefault" ->
            WithDefault(parseDef(schema.innerType, atProperty), schema.defaultValue)

\* `${name}Collection`
DefinitionName(name) == <<name, "Collection">>

RootSchema(name, main) ==
    IF main.ok
    THEN Returned([ref |-> <<"#/definitions/">> \o DefinitionName(name),
                   definitions |-> <<E(DefinitionName(name), main.v)>>])
    ELSE Thrown

\* zodToJsonSchema(zodSchema, {name: `${name}Collection`}): the main schema
\* is filed under definitions and referred to
zodToJsonSchema(zodSchema, name) == RootSchema(name, parseDef(zodSchema, FALSE))

----------------------------------------------------------------------------
(* Field extraction                                                         *)

mapJsonSchemaType(schema) ==
    IF Len(schema.type) = 0 THEN "unknown"
    ELSE CASE schema.type[1] = "string" ->
                IF schema.format \in {<<"date">>, <<"date-time">>} THEN "date"
                ELSE IF /\ Len(schema.properties) > 0
                        /\ (Has(schema.properties[1], "src") \/ Has(schema.properties[1], "url"))
                THEN "image"
                ELSE "string"
           [] schema.type[1] \in {"number", "integer"} -> "number"
           [] schema.type[1] = "boolean" -> "boolean"
           [] schema.type[1] = "array" -> "array"
           [] schema.type[1] = "object" ->
                IF /\ Len(schema.properties) > 0
                   /\ Has(schema.properties[1], "src")
                   /\ Has(schema.properties[1], "alt")
                THEN "image"
                ELSE "object"
           [] OTHER -> "unknown"

\* parseJsonSchemaField (items and description are not carried)
parseJsonSchemaField(name, schema, isRequired) ==
    SchemaField(name, mapJsonSchemaType(schema), isRequired, schema.default)

RECURSIVE FieldsOfProperties(_, _, _)
FieldsOfProperties(properties, required, i) ==
    IF i > Len(properties) THEN <<>>
    ELSE <<parseJsonSchemaField(properties[i].name, properties[i].value,
                                SeqIncludes(required, properties[i].name))>>
         \o FieldsOfProperties(properties, required, i + 1)

\* the schema the fields are read from: the definition $ref names
ResolveRef(jsonSchema) ==
    Get(jsonSchema.definitions, SubSeq(jsonSchema.ref, 2, Len(jsonSchema.ref)))

FieldsOfSchema(schema) ==
    IF Len(schema.properties) = 0 THEN <<>>
    ELSE FieldsOfProperties(schema.properties[1], schema.required, 1)

extractFieldsFromJsonSchema(jsonSchema) == FieldsOfSchema(ResolveRef(jsonSchema))

\* `src/content/${collectionName}`
getDefaultDirectory(collectionName) == <<"src/content/", collectionName>>

IsRequiredField(f) == f.required

IsOptionalField(f) == ~f.required

IsImageField(f) == f.type = "image"

\* the type property of a collection definition: the last string literal
RECURSIVE DefinitionType(_, _, _)
DefinitionType(properties, i, type) ==
    IF i > Len(properties) THEN type
    ELSE IF /\ properties[i].type = "ObjectProperty"
            /\ properties[i].key.type = "Identifier"
            /\ properties[i].key.name = "type"
            /\ properties[i].value.type = "StringLiteral"
    THEN DefinitionType(properties, i + 1, properties[i].value.value)
    ELSE DefinitionType(properties, i + 1, type)

\* the value of the schema property of a collection definition: <<>> or
\* <<node>>, the last one
RECURSIVE DefinitionSchema(_, _, _)
DefinitionSchema(properties, i, schemaNode) ==
    IF i > Len(properties) THEN schemaNode
    ELSE IF /\ properties[i].type = "ObjectProperty"
            /\ properties[i].key.type = "Identifier"
            /\ properties[i].key.name = "schema"
    THEN DefinitionSchema(properties, i + 1, <<properties[i].value>>)
    ELSE DefinitionSchema(properties, i + 1, schemaNode)

AstroCollection(name, type, fields) ==
    [name |-> name, type |-> type, fields |-> fields,
     requiredFields |-> SelectSeq(fields, IsRequiredField),
     optionalFields |-> SelectSeq(fields, IsOptionalField),
     imageFields |-> SelectSeq(fields, IsImageField),
     defaultDir |-> getDefaultDirectory(name)]

CollectionOfJsonSchema(name, type, jsonSchema) ==
    IF jsonSchema.ok
    THEN <<AstroCollection(name, type, extractFieldsFromJsonSchema(jsonSchema.v))>>
    ELSE <<>>

CollectionOfZodSchema(name, type, zodSchema) ==
    IF Len(zodSchema) = 0 \/ Falsy(zodSchema[1]) THEN <<>>
    ELSE CollectionOfJsonSchema(name, type, zodToJsonSchema(zodSchema[1], name))

CollectionOfSchemaNode(name, type, schemaNode) ==
    IF Len(schemaNode) = 0 THEN <<>>
    ELSE CollectionOfZodSchema(name, type, astNodeToZodSchema(schemaNode[1]))

\* parseCollectionDefinitionFromAST(name, definition): <<>> is null
parseCollectionDefinitionFromAST(name, definition) ==
    CollectionOfSchemaNode(name,
                           DefinitionType(definition.properties, 1, <<"content">>),
                           DefinitionSchema(definition.properties, 1, <<>>))

----------------------------------------------------------------------------
(* parseConfigFromSource                                                    *)

\* a config source: whether its text is valid module syntax, and the
\* statements of the module
ConfigSource(malformed, body) == [malformed |-> malformed, body |-> body]

\* the VariableDeclarator nodes the traversal visits, in source order
RECURSIVE Declarators(_, _)
Declarators(body, i) ==
    IF i > Len(body) THEN <<>>
    ELSE (IF body[i].type = "VariableDeclaration" THEN body[i].declarations
          ELSE IF body[i].type = "ExportNamedDeclaration" /\ Len(body[i].declaration) > 0
          THEN body[i].declaration[1].declarations
          ELSE <<>>)
         \o Declarators(body, i + 1)

\* a parser that recovers from every error and never throws
ParseThrows_Never(source) == FALSE

\* parse(configContent, ...) throws: the text is not valid module syntax, or
\* a name is declared twice
ParseThrows(source) ==
    \/ source.malformed
    \/ \E i, j \in DOMAIN Declarators(source.body, 1) :
          /\ i < j
          /\ Declarators(source.body, 1)[i].id.name = Declarators(source.body, 1)[j].id.name

IsDefineCollectionCall(declarator) ==
    /\ declarator.id.type = "Identifier"
    /\ declarator.init.type = "CallExpression"
    /\ declarator.init.callee.type = "Identifier"
    /\ declarator.init.callee.name = "defineCollection"

\* the VariableDeclarator visitor over all declarators: collectionDefinitions
RECURSIVE CollectionDefinitions(_, _, _)
CollectionDefinitions(declarators, i, collectionDefinitions) ==
    IF i > Len(declarators) THEN collectionDefinitions
    ELSE IF /\ IsDefineCollectionCall(declarators[i])
            /\ Len(declarators[i].init.arguments) > 0
            /\ declarators[i].init.arguments[1].type = "ObjectExpression"
    THEN CollectionDefinitions(declarators, i + 1,
             Put(collectionDefinitions, declarators[i].id.name,
                 declarators[i].init.arguments[1]))
    ELSE CollectionDefinitions(declarators, i + 1, collectionDefinitions)

\* export const collections = <init>
IsCollectionsExport(statement) ==
    /\ statement.type = "ExportNamedDeclaration"
    /\ Len(statement.declaration) > 0
    /\ statement.declaration[1].type = "VariableDeclaration"
    /\ Len(statement.declaration[1].declarations) > 0
    /\ statement.declaration[1].declarations[1].id.type = "Identifier"
    /\ statement.declaration[1].declarations[1].id.name = "collections"

\* the name mappings of one exported object: key -> binding
RECURSIVE ExportMappings(_, _, _)
ExportMappings(properties, i, collectionExports) ==
    IF i > Len(properties) THEN collectionExports
    ELSE IF properties[i].type = "ObjectProperty" /\ properties[i].key.type = "Identifier"
    THEN ExportMappings(properties, i + 1,
             Put(collectionExports, properties[i].key.name,
                 IF properties[i].value.type = "Identifier"
                 THEN properties[i].value.name
                 ELSE properties[i].key.name))
    ELSE ExportMappings(properties, i + 1, collectionExports)

\* the ExportNamedDeclaration visitor over all statements: collectionExports
RECURSIVE CollectionExports(_, _, _)
CollectionExports(body, i, collectionExports) ==
    IF i > Len(body) THEN collectionExports
    ELSE IF /\ IsCollectionsExport(body[i])
            /\ body[i].declaration[1].declarations[1].init.type = "ObjectExpression"
    THEN CollectionExports(body, i + 1,
             ExportMappings(body[i].declaration[1].declarations[1].init.properties, 1,
                            collectionExports))
    ELSE CollectionExports(body, i + 1, collectionExports)

\* new Map(Array.from(collectionDefinitions.keys()).map(name => [name, name]))
RECURSIVE OwnNames(_, _)
OwnNames(collectionDefinitions, i) ==
    IF i > Len(collectionDefinitions) THEN <<>>
    ELSE <<E(collectionDefinitions[i].name, collectionDefinitions[i].name)>>
         \o OwnNames(collectionDefinitions, i + 1)

CollectionsToProcess(collectionExports, collectionDefinitions) ==
    IF Len(collectionExports) > 0 THEN collectionExports
    ELSE OwnNames(collectionDefinitions, 1)

\* for (const [collectionName, varName] of collectionsToProcess)
RECURSIVE ProcessCollections(_, _, _)
ProcessCollections(collectionsToProcess, collectionDefinitions, i) ==
    IF i > Len(collectionsToProcess) THEN <<>>
    ELSE (IF Has(collectionDefinitions, collectionsToProcess[i].value)
          THEN parseCollectionDefinitionFromAST(
                   collectionsToProcess[i].name,
                   Get(collectionDefinitions, collectionsToProcess[i].value))
          ELSE <<>>)
         \o ProcessCollections(collectionsToProcess, collectionDefinitions, i + 1)

\* the body of the try block once the definitions are collected
ProcessDefinitions(body, collectionDefinitions) ==
    ProcessCollections(
        CollectionsToProcess(CollectionExports(body, 1, <<>>), collectionDefinitions),
        collectionDefinitions, 1)

\* the catch block's parseConfigFromSourceFallback
parseConfigFromSourceFallback == <<>>

\* parseConfigFromSource(configContent): the collections returned
parseConfigFromSource(source) ==
    IF ParseThrows(source) THEN parseConfigFromSourceFallback
    ELSE ProcessDefinitions(source.body,
                            CollectionDefinitions(Declarators(source.body, 1), 1, <<>>))

----------------------------------------------------------------------------
(* Config sources                                                           *)

\* z.<name>(<arguments>)
ZCall(name, arguments) ==
    CallExpression(MemberExpression(Identifier("z"), Identifier(name)), arguments)

\* <object>.<name>(<arguments>)
Chain(object, name, arguments) ==
    CallExpression(MemberExpression(object, Identifier(name)), arguments)

\* <name>: <value>
Prop(name, value) == ObjectProperty(Identifier(name), value)

\* z.coerce.date()
CoerceDate ==
    CallExpression(
        MemberExpression(MemberExpression(Identifier("z"), Identifier("coerce")),
                         Identifier("date")),
        <<>>)

\* const <name> = defineCollection(<arguments>)
DefineCollection(name, arguments) ==
    VariableDeclaration(<<VariableDeclarator(
        Identifier(name), CallExpression(Identifier("defineCollection"), arguments))>>)

\* export const collections = <init>
ExportCollections(init) ==
    ExportNamedDeclaration(<<VariableDeclaration(<<VariableDeclarator(
        Identifier("collections"), init)>>)>>)

BlogSchema ==
    ZCall("object", <<ObjectExpression(<<
        Prop("title", ZCall("string", <<>>)),
        Prop("description", Chain(ZCall("string", <<>>), "optional", <<>>)),
        Prop("pubDate", CoerceDate),
        Prop("draft", Chain(ZCall("boolean", <<>>), "default", <<BooleanLiteral(FALSE)>>)),
        Prop("tags", Chain(ZCall("array", <<ZCall("string", <<>>)>>), "default",
                           <<ArrayExpression(<<>>)>>)),
        Prop("heroImage",
             Chain(ZCall("object", <<ObjectExpression(<<
                       Prop("src", ZCall("string", <<>>)),
                       Prop("alt", ZCall("string", <<>>))>>)>>),
                   "optional", <<>>))>>)>>)

\* const blog = defineCollection({ type: 'content', schema: z.object({...}) })
DefineBlog ==
    DefineCollection("blog", <<ObjectExpression(<<
        Prop("type", StringLiteral(<<"content">>)),
        Prop("schema", BlogSchema)>>)>>)

DocsSchema ==
    ZCall("object", <<ObjectExpression(<<
        Prop("title", ZCall("string", <<>>)),
        Prop("cover", ZCall("object", <<ObjectExpression(<<
                 Prop("src", ZCall("string", <<>>)),
                 Prop("alt", ZCall("string", <<>>)),
                 Prop("caption", ZCall("string", <<>>))>>)>>)),
        Prop("thumbnail", ZCall("object", <<ObjectExpression(<<
                 Prop("url", ZCall("string", <<>>)),
                 Prop("alt", ZCall("string", <<>>))>>)>>)),
        Prop("meta", ZCall("object", <<ObjectExpression(<<
                 Prop("owner", ZCall("string", <<>>))>>)>>)),
        Prop("order", Chain(ZCall("number", <<>>), "default",
                            <<UnaryExpression("-", NumericLiteral(1))>>)),
        Prop("summary", Chain(Chain(ZCall("string", <<>>), "optional", <<>>), "default",
                              <<StringLiteral(<<"t", "b", "d">>)>>))>>)>>)

\* const docs = defineCollection({ type: 'data', schema: z.object({...}) })
DefineDocs ==
    DefineCollection("docs", <<ObjectExpression(<<
        Prop("type", StringLiteral(<<"data">>)),
        Prop("schema", DocsSchema)>>)>>)

\* const notes = defineCollection({
\*   schema: ({ image }) => z.object({ title: z.string(), cover: image() }) })
DefineNotes ==
    DefineCollection("notes", <<ObjectExpression(<<
        Prop("schema", ArrowFunctionExpression(<<"image">>,
            ZCall("object", <<ObjectExpression(<<
                Prop("title", ZCall("string", <<>>)),
                Prop("cover", CallExpression(Identifier("image"), <<>>))>>)>>)))>>)>>)

\* const pages = defineCollection(pagesConfig)
DefinePages == DefineCollection("pages", <<Identifier("pagesConfig")>>)

\* const tags = defineCollection({ type: 'data', schema: z.array(z.string()) })
DefineTags ==
    DefineCollection("tags", <<ObjectExpression(<<
        Prop("type", StringLiteral(<<"data">>)),
        Prop("schema", ZCall("array", <<ZCall("string", <<>>)>>))>>)>>)

\* const drafts = defineCollection({ schema: z.text({ title: z.string() }) })
DefineDrafts ==
    DefineCollection("drafts", <<ObjectExpression(<<
        Prop("schema", ZCall("text", <<ObjectExpression(<<
            Prop("title", ZCall("string", <<>>))>>)>>))>>)>>)

\* const siteTitle = "x"
DeclareSiteTitle ==
    VariableDeclaration(<<VariableDeclarator(Identifier("siteTitle"),
                                             StringLiteral(<<"x">>))>>)

\* export const collections = { posts: blog, docs }
ExportRenamed ==
    ExportCollections(ObjectExpression(<<Prop("posts", Identifier("blog")),
                                         Prop("docs", Identifier("docs"))>>))

\* export const collections = { blog }
ExportBlogOnly == ExportCollections(ObjectExpression(<<Prop("blog", Identifier("blog"))>>))

\* export const collections = {}
ExportNothing == ExportCollections(ObjectExpression(<<>>))

\* export const collections = { 'blog': blog, 'docs': docs }
ExportQuoted ==
    ExportCollections(ObjectExpression(<<
        ObjectProperty(StringLiteral(<<"blog">>), Identifier("blog")),
        ObjectProperty(StringLiteral(<<"docs">>), Identifier("docs"))>>))

StatementPool ==
    <<DefineBlog, DefineDocs, DefineNotes, DefinePages, DefineTags, DefineDrafts,
      DeclareSiteTitle, ExportRenamed, ExportBlogOnly, ExportNothing, ExportQuoted>>

EmptySource == ConfigSource(FALSE, <<>>)

----------------------------------------------------------------------------
(* pattern-detection.ts, SchemaIntrospectionService: the text-based schema  *)
(* analysis.  The schema text is a sequence of chunks, as the text          *)
(* astNodeToCode builds: one punctuation or white-space character, or one   *)
(* whole word.                                                              *)

Whitespace == {" ", "\n"}

SingleQuote == "'"

Least(positions) == CHOOSE i \in positions : \A j \in positions : i <= j

Greatest(positions) == CHOOSE i \in positions : \A j \in positions : j <= i

\* the pattern starts at position i of the text
StartsAt(text, pattern, i) ==
    /\ i >= 1
    /\ i + Len(pattern) - 1 <= Len(text)
    /\ SubSeq(text, i, i + Len(pattern) - 1) = pattern

\* text.indexOf(pattern, from): the first position from `from` on where the
\* pattern starts, 0 when there is none
IndexOfText(text, pattern, from) ==
    IF \E i \in from..Len(text) : StartsAt(text, pattern, i)
    THEN Least({i \in from..Len(text) : StartsAt(text, pattern, i)})
    ELSE 0

\* text.includes(pattern)
IncludesText(text, pattern) == IndexOfText(text, pattern, 1) # 0

\* text.trim()
Trim(text) ==
    IF \A i \in DOMAIN text : text[i] \in Whitespace THEN <<>>
    ELSE SubSeq(text, Least({i \in DOMAIN text : text[i] \notin Whitespace}),
                      Greatest({i \in DOMAIN text : text[i] \notin Whitespace}))

\* text.replace(pattern, ''): the first occurrence removed
RemoveFirst(text, pattern) ==
    IF IncludesText(text, pattern)
    THEN SubSeq(text, 1, IndexOfText(text, pattern, 1) - 1)
         \o SubSeq(text, IndexOfText(text, pattern, 1) + Len(pattern), Len(text))
    ELSE text

OptionalModifier == <<".", "optional", "(", ")">>

DefaultOpen == <<".", "default", "(">>

\* the position of the first ")" from position i on, 0 when there is none
ClosingParen(text, i) ==
    IF \E j \in i..Len(text) : text[j] = ")"
    THEN Least({j \in i..Len(text) : text[j] = ")"})
    ELSE 0

\* the start of the first match of /\.default\([^)]{least,}\)/, 0 when
\* there is none
DefaultModifierAt(text, least) ==
    IF \E p \in DOMAIN text :
           /\ StartsAt(text, DefaultOpen, p)
           /\ ClosingParen(text, p + 3) >= p + 3 + least
    THEN Least({p \in DOMAIN text :
                   /\ StartsAt(text, DefaultOpen, p)
                   /\ ClosingParen(text, p + 3) >= p + 3 + least})
    ELSE 0

\* definition.replace(/\.default\([^)]*\)/, '')
RemoveDefaultModifier(text) ==
    IF DefaultModifierAt(text, 0) = 0 THEN text
    ELSE SubSeq(text, 1, DefaultModifierAt(text, 0) - 1)
         \o SubSeq(text, ClosingParen(text, DefaultModifierAt(text, 0) + 3) + 1, Len(text))

\* JSON.parse of the text of an array: the empty array and an array of one
\* double-quoted word; any other text of the inputs is not valid JSON
JsonParseArray(text) ==
    IF text = <<"[", "]">> THEN Returned(Arr(<<>>))
    ELSE IF Len(text) = 5 /\ text[2] = Quote /\ text[4] = Quote
            /\ text[3] \notin {Quote, SingleQuote, "\\", "\n"}
    THEN Returned(Arr(<<text[3]>>))
    ELSE Thrown

\* the default value read from the text between the parentheses: <<>> is
\* undefined
ParseDefaultText(defaultStr) ==
    IF defaultStr = <<"true">> THEN <<Bool(TRUE)>>
    ELSE IF defaultStr = <<"false">> THEN <<Bool(FALSE)>>
    ELSE IF \A i \in DOMAIN defaultStr : defaultStr[i] \in Digits
    THEN <<Num(DigitsValue(defaultStr, 1, Len(defaultStr)))>>
    ELSE IF /\ defaultStr[1] = "[" /\ defaultStr[Len(defaultStr)] = "]"
            /\ Len(defaultStr) >= 2 /\ \A i \in DOMAIN defaultStr : defaultStr[i] # "\n"
    THEN (IF JsonParseArray(defaultStr).ok THEN <<JsonParseArray(defaultStr).v>>
          ELSE <<Str(defaultStr)>>)
    ELSE IF defaultStr[1] = Quote /\ defaultStr[Len(defaultStr)] = Quote
    THEN <<Str(SubSeq(defaultStr, 2, Len(defaultStr) - 1))>>
    ELSE <<>>

\* definition.match(/\.default\(([^)]+)\)/) and the value of its group
DefaultValueOf(definition) ==
    IF DefaultModifierAt(definition, 1) = 0 THEN <<>>
    ELSE ParseDefaultText(
             SubSeq(definition, DefaultModifierAt(definition, 1) + 3,
                    ClosingParen(definition, DefaultModifierAt(definition, 1) + 3) - 1))

\* the type the base definition names
TypeOfBaseDefinition(baseDefinition) ==
    IF IncludesText(baseDefinition, <<"z", ".", "string", "(", ")">>) THEN "string"
    ELSE IF IncludesText(baseDefinition, <<"z", ".", "number", "(", ")">>) THEN "number"
    ELSE IF IncludesText(baseDefinition, <<"z", ".", "boolean", "(", ")">>) THEN "boolean"
    ELSE IF \/ IncludesText(baseDefinition, <<"z", ".", "date", "(", ")">>)
            \/ IncludesText(baseDefinition, <<"z", ".", "coerce", ".", "date", "(", ")">>)
    THEN "date"
    ELSE IF IncludesText(baseDefinition, <<"z", ".", "array", "(">>) THEN "array"
    ELSE IF IncludesText(baseDefinition, <<"image", "(", ")">>) THEN "image"
    ELSE IF IncludesText(baseDefinition, <<"z", ".", "object", "(">>)
    THEN (IF /\ IncludesText(baseDefinition, <<"src", ":">>)
             /\ IncludesText(baseDefinition, <<"alt", ":">>)
          THEN "image" ELSE "object")
    ELSE "unknown"

\* parseFieldType(definition): {type, defaultValue}
parseFieldType(definition) ==
    [type |-> TypeOfBaseDefinition(
                  RemoveDefaultModifier(RemoveFirst(definition, OptionalModifier))),
     defaultValue |-> DefaultValueOf(definition)]

\* fieldLine.match(/\/\/\s*(.+)$/): the comment that ends the line, <<>>
\* when there is none
CommentStarts(fieldLine) ==
    {i \in DOMAIN fieldLine :
        /\ StartsAt(fieldLine, <<"/", "/">>, i)
        /\ Len(Trim(SubSeq(fieldLine, i + 2, Len(fieldLine)))) > 0
        /\ \A j \in (i + 2)..Len(fieldLine) :
              fieldLine[j] = "\n" => \A k \in j..Len(fieldLine) : fieldLine[k] \in Whitespace}

extractFieldDescription(fieldLine) ==
    IF CommentStarts(fieldLine) = {} THEN <<>>
    ELSE <<Trim(SubSeq(fieldLine, Least(CommentStarts(fieldLine)) + 2, Len(fieldLine)))>>

\* a chunk that /\w+/ matches as a whole
IsWordChunk(chunk) ==
    chunk \notin Whitespace \cup Punctuators \cup {Quote, SingleQuote, "\\", "/", "-", "=", ">"}

\* fieldLine.replace(/,$/, '').trim()
CleanLine(fieldLine) ==
    IF Len(fieldLine) > 0 /\ fieldLine[Len(fieldLine)] = ","
    THEN Trim(SubSeq(fieldLine, 1, Len(fieldLine) - 1))
    ELSE Trim(fieldLine)

\* the second group of /^(\w+):\s*(.+)$/: the text after the colon and the
\* white space that follows it
DefinitionText(cleanLine) ==
    IF \A i \in 3..Len(cleanLine) : cleanLine[i] \in Whitespace THEN <<>>
    ELSE SubSeq(cleanLine, Least({i \in 3..Len(cleanLine) : cleanLine[i] \notin Whitespace}),
                Len(cleanLine))

\* cleanLine.match(/^(\w+):\s*(.+)$/) succeeds: (.+)$ runs to the end of
\* the text and matches no line break
FieldMatch(cleanLine) ==
    /\ Len(cleanLine) >= 3
    /\ IsWordChunk(cleanLine[1])
    /\ cleanLine[2] = ":"
    /\ Len(DefinitionText(cleanLine)) > 0
    /\ \A i \in DOMAIN DefinitionText(cleanLine) : DefinitionText(cleanLine)[i] # "\n"

TextSchemaField(name, fieldType, optional, description) ==
    [name |-> name, type |-> fieldType.type, required |-> ~optional,
     defaultValue |-> fieldType.defaultValue, description |-> description]

\* parseSchemaField(fieldLine): <<>> is null
parseSchemaField(fieldLine) ==
    IF ~FieldMatch(CleanLine(fieldLine)) THEN <<>>
    ELSE <<TextSchemaField(CleanLine(fieldLine)[1],
                           parseFieldType(DefinitionText(CleanLine(fieldLine))),
                           IncludesText(DefinitionText(CleanLine(fieldLine)), OptionalModifier),
                           extractFieldDescription(fieldLine))>>

\* the position of the first quote character after position i, 0 when
\* there is none
NextQuote(schemaBody, i) ==
    IF \E q \in (i + 1)..Len(schemaBody) : schemaBody[q] \in {Quote, SingleQuote}
    THEN Least({q \in (i + 1)..Len(schemaBody) : schemaBody[q] \in {Quote, SingleQuote}})
    ELSE 0

\* the string literals as the loop of parseSchemaLines sees them: the pairs
\* <<opening quote, closing quote>>; a quote closes the literal when it is
\* the opening character and the character before it is not a backslash
RECURSIVE StringSpans(_, _, _, _)
StringSpans(schemaBody, q, open, spans) ==
    IF q = 0
    THEN (IF open = 0 THEN spans ELSE spans \cup {<<open, Len(schemaBody) + 1>>})
    ELSE IF open = 0
    THEN StringSpans(schemaBody, NextQuote(schemaBody, q), q, spans)
    ELSE IF schemaBody[q] = schemaBody[open] /\ schemaBody[q - 1] # "\\"
    THEN StringSpans(schemaBody, NextQuote(schemaBody, q), 0, spans \cup {<<open, q>>})
    ELSE StringSpans(schemaBody, NextQuote(schemaBody, q), open, spans)

\* inString once the character at position i has been looked at
InStringAt(spans, i) == \E span \in spans : span[1] <= i /\ i < span[2]

\* braceCount once the character at position i has been counted
BraceCountAt(schemaBody, spans, i) ==
    Cardinality({j \in 1..i : schemaBody[j] = "{" /\ ~InStringAt(spans, j)})
    - Cardinality({j \in 1..i : schemaBody[j] = "}" /\ ~InStringAt(spans, j)})

\* the commas that end a field definition
LineEnds(schemaBody, spans) ==
    {i \in DOMAIN schemaBody :
        /\ schemaBody[i] = ","
        /\ ~InStringAt(spans, i)
        /\ BraceCountAt(schemaBody, spans, i) = 0}

\* the lines pushed at the commas from position `from` on, then the rest of
\* the text when it is not blank
RECURSIVE LinesFrom(_, _, _)
LinesFrom(schemaBody, ends, from) ==
    IF \A e \in ends : e < from
    THEN (IF Len(Trim(SubSeq(schemaBody, from, Len(schemaBody)))) > 0
          THEN <<Trim(SubSeq(schemaBody, from, Len(schemaBody)))>> ELSE <<>>)
    ELSE <<Trim(SubSeq(schemaBody, from, Least({e \in ends : e >= from})))>>
         \o LinesFrom(schemaBody, ends, Least({e \in ends : e >= from}) + 1)

\* parseSchemaLines(schemaBody)
parseSchemaLines(schemaBody) ==
    LinesFrom(schemaBody,
              LineEnds(schemaBody, StringSpans(schemaBody, NextQuote(schemaBody, 0), 0, {})),
              1)

\* the loop over the lines: blank lines, lone commas and comment lines are
\* passed over, and so is a line parseSchemaField does not recognise
RECURSIVE FieldsOfLines(_, _)
FieldsOfLines(lines, i) ==
    IF i > Len(lines) THEN <<>>
    ELSE (IF \/ Len(Trim(lines[i])) = 0
             \/ Trim(lines[i]) = <<",">>
             \/ StartsAt(Trim(lines[i]), <<"/", "/">>, 1)
          THEN <<>>
          ELSE parseSchemaField(Trim(lines[i])))
         \o FieldsOfLines(lines, i + 1)

SchemaMarker == <<"schema", ":">>

ObjectOpen == <<"z", ".", "object", "(", "{">>

\* braceCount of the brace-matching loop at position i, counted from start
BraceDepth(schemaContent, start, i) ==
    Cardinality({j \in start..i : schemaContent[j] = "{"})
    - Cardinality({j \in start..i : schemaContent[j] = "}"})

\* the position where the loop breaks: the brace that closes the one at
\* start; 0 when the braces are unmatched
MatchingBrace(schemaContent, start) ==
    IF \E i \in start..Len(schemaContent) : BraceDepth(schemaContent, start, i) = 0
    THEN Least({i \in start..Len(schemaContent) : BraceDepth(schemaContent, start, i) = 0})
    ELSE 0

\* the fields of the schema body between the braces that start and end
FieldsOfBody(schemaContent, start, end) ==
    IF end = 0 THEN Thrown
    ELSE Returned(FieldsOfLines(parseSchemaLines(SubSeq(schemaContent, start + 1, end - 1)), 1))

FieldsOfObject(schemaContent, objectStart) ==
    IF objectStart = 0 THEN Thrown
    ELSE FieldsOfBody(schemaContent, objectStart + 4,
                      MatchingBrace(schemaContent, objectStart + 4))

\* extractSchemaFields(schemaContent): the fields, or an exception
extractSchemaFields(schemaContent) ==
    IF IndexOfText(schemaContent, SchemaMarker, 1) = 0 THEN Thrown
    ELSE FieldsOfObject(schemaContent,
                        IndexOfText(schemaContent, ObjectOpen,
                                    IndexOfText(schemaContent, SchemaMarker, 1)))

SchemaAnalysisOf(fields) ==
    IF fields.ok
    THEN [fields |-> fields.v,
          requiredFields |-> SelectSeq(fields.v, LAMBDA f : f.required),
          optionalFields |-> SelectSeq(fields.v, LAMBDA f : ~f.required),
          imageFields |-> SelectSeq(fields.v, LAMBDA f : f.type = "image"),
          success |-> TRUE]
    ELSE [fields |-> <<>>, requiredFields |-> <<>>, optionalFields |-> <<>>,
          imageFields |-> <<>>, success |-> FALSE]

\* SchemaIntrospectionService.analyzeSchema(schemaContent)
analyzeSchema(schemaContent) == SchemaAnalysisOf(extractSchemaFields(schemaContent))

----------------------------------------------------------------------------
(* Schema texts                                                             *)

FieldText(name, definition) == [name |-> name, definition |-> definition]

\* z.<name>()
ZText(name) == <<"z", ".", name, "(", ")">>

\* title: z.string()
TitleText == FieldText("title", ZText("string"))

\* description: z.string().optional()
DescriptionText == FieldText("description", ZText("string") \o OptionalModifier)

\* date: z.coerce.date()
DateText == FieldText("date", <<"z", ".", "coerce", ".", "date", "(", ")">>)

\* tags: z.array(z.string()).default([])
TagsText ==
    FieldText("tags", <<"z", ".", "array", "(">> \o ZText("string") \o <<")">>
                      \o DefaultOpen \o <<"[", "]", ")">>)

\* draft: z.boolean().default(false)
DraftText == FieldText("draft", ZText("boolean") \o DefaultOpen \o <<"false", ")">>)

\* category: z.string().default('general')
CategoryText ==
    FieldText("category", ZText("string") \o DefaultOpen
                          \o <<SingleQuote, "general", SingleQuote, ")">>)

\* status: z.enum(["draft", "live"]).optional()
StatusText ==
    FieldText("status", <<"z", ".", "enum", "(", "[", Quote, "draft", Quote, ",", " ",
                          Quote, "live", Quote, "]", ")">> \o OptionalModifier)

\* cover: z.object({ src: z.string(), alt: z.string() }).optional()
CoverText ==
    FieldText("cover", <<"z", ".", "object", "(", "{", " ", "src", ":", " ">>
                       \o ZText("string") \o <<",", " ", "alt", ":", " ">>
                       \o ZText("string") \o <<" ", "}", ")">> \o OptionalModifier)

FieldTextPool ==
    <<TitleText, DescriptionText, DateText, TagsText, DraftText, CategoryText,
      StatusText, CoverText>>

\* the lines `<name>: <definition>,` of the fields
RECURSIVE FieldLines(_, _)
FieldLines(fields, i) ==
    IF i > Len(fields) THEN <<>>
    ELSE <<" ", fields[i].name, ":", " ">> \o fields[i].definition \o <<",", "\n">>
         \o FieldLines(fields, i + 1)

\* const blog = defineCollection({
\*   schema: z.object({
\*     <the field lines>
\*   }),
\* });
SchemaText(fields) ==
    <<"const", " ", "blog", " ", "=", " ", "defineCollection", "(", "{", "\n",
      " ", "schema", ":", " ", "z", ".", "object", "(", "{", "\n">>
    \o FieldLines(fields, 1)
    \o <<" ", "}", ")", ",", "\n", "}", ")", ";", "\n">>

----------------------------------------------------------------------------
(* index.ts: publishPost and unpublishPost, with gray-matter                *)
(*                                                                          *)
(* A post file is the record [data, body]: data is the frontmatter map its  *)
(* YAML block parses to, body is the text after the closing delimiter       *)
(* line.  A body is the record [block, text]: block is <<>>, or <<map>>     *)
(* when the body itself opens with a delimited YAML block, and text is the  *)
(* text after it, a sequence of chunks.                                     *)

PostFile(data, body) == [data |-> data, body |-> body]

PostBody(block, text) == [block |-> block, text |-> text]

\* matter(str) of gray-matter: the data of the delimited block the string
\* opens with, and the content after the block
matter(str) ==
    [data |-> IF Len(str.block) = 0 THEN <<>> ELSE str.block[1],
     content |-> str.text]

\* newline(str) of gray-matter's stringify: the string ends with a line feed
newline(str) ==
    IF Len(str) > 0 /\ str[Len(str)] = "\n" THEN str ELSE Append(str, "\n")

\* Object.assign({}, target, source)
RECURSIVE ObjectAssign(_, _, _)
ObjectAssign(target, source, i) ==
    IF i > Len(source) THEN target
    ELSE ObjectAssign(Put(target, source[i].name, source[i].value), source, i + 1)

\* stringify(file, data) of gray-matter: the file text with the data of the
\* parsed file and the data given as frontmatter
StringifyFile(file, data) ==
    PostFile(ObjectAssign(file.data, data, 1), PostBody(<<>>, newline(file.content)))

\* matter.stringify(content, data): a content given as a string is parsed
\* as a file first
matterStringify(content, data) == StringifyFile(matter(content), data)

\* the outcome of an operation on the post file: the file as it is left,
\* and the message of the error thrown
Outcome(file, error) == [file |-> file, error |-> error]

FileNotFound == <<"File not found">>

\* parsed.data once publishPost has updated it
PublishedData(data, publishDate) ==
    IF Len(publishDate) > 0
    THEN Put(Put(data, "draft", Bool(FALSE)), "date", DateV(publishDate[1]))
    ELSE Put(data, "draft", Bool(FALSE))

\* publishPost({filePath, publishDate}) on the file at filePath: <<>> when
\* it does not exist
publishPost(file, publishDate) ==
    IF Len(file) = 0 THEN Outcome(file, FileNotFound)
    ELSE Outcome(<<matterStringify(file[1].body,
                                   PublishedData(file[1].data, publishDate))>>,
                 <<>>)

\* parsed.data once unpublishPost has updated it
UnpublishedData(data) ==
    IF Has(data, "published")
    THEN Put(Put(data, "draft", Bool(TRUE)), "published", Bool(FALSE))
    ELSE Put(data, "draft", Bool(TRUE))

\* unpublishPost({filePath})
unpublishPost(file) ==
    IF Len(file) = 0 THEN Outcome(file, FileNotFound)
    ELSE Outcome(<<matterStringify(file[1].body, UnpublishedData(file[1].data))>>, <<>>)

----------------------------------------------------------------------------
(* Post files                                                               *)

\* what createPost writes: draft, a date, and a body that ends its last line
DraftPostData ==
    <<E("title", Str(<<"P">>)), E("date", DateV(20 * 1440)),
      E("tags", Arr(<<"t">>)), E("draft", Bool(TRUE))>>

\* a Jekyll-style post: published instead of draft
JekyllPostData ==
    <<E("title", Str(<<"J">>)), E("date", DateV(20 * 1440)), E("published", Bool(TRUE))>>

\* a post that carries both flags
BothFlagsData ==
    <<E("title", Str(<<"B">>)), E("draft", Bool(TRUE)), E("published", Bool(FALSE))>>

\* a post without flags and without a date
BarePostData == <<E("title", Str(<<"N">>))>>

PostDataPool == {DraftPostData, JekyllPostData, BothFlagsData, BarePostData}

\* "# P\n\nText\n", "\nText" (no line feed at the end), "" and a body that
\* opens with its own delimited block "---\nnote: x\n---\nText\n"
PostBodyPool ==
    {PostBody(<<>>, <<"#", " ", "P", "\n", "\n", "Text", "\n">>),
     PostBody(<<>>, <<"\n", "Text">>),
     PostBody(<<>>, <<>>),
     PostBody(<<<<E("note", Str(<<"x">>))>>>>, <<"Text", "\n">>)}

\* the publishDate option: absent, or a Date
PublishDates == {<<>>, <<30 * 1440>>}

----------------------------------------------------------------------------
(* git-utils.ts: branches, the wait for the pull request, the cleanup       *)

\* the working copy: the branch checked out and the local branches
Repo(current, branches) == [current |-> current, branches |-> branches]

\* getDefaultBranch(): refs/remotes/origin/HEAD of the projects modelled
DefaultBranch == "main"

\* `${prefix}/${date}-${slug}`: the branch of the post being published
PublishBranch == "blogue/post"

Branches == {DefaultBranch, "feature", PublishBranch}

\* the result of a git command: the working copy after it, and whether it threw
GitResult(copy, threw) == [repo |-> copy, threw |-> threw]

\* git.checkout(branch)
checkout(copy, branch) ==
    IF branch \in copy.branches
    THEN GitResult(Repo(branch, copy.branches), FALSE)
    ELSE GitResult(copy, TRUE)

\* git.deleteLocalBranch(branch, true): git keeps the branch checked out
deleteLocalBranch(copy, branch) ==
    IF branch \in copy.branches /\ branch # copy.current
    THEN GitResult(Repo(copy.current, copy.branches \ {branch}), FALSE)
    ELSE GitResult(copy, TRUE)

\* createPublishBranch(title): an existing local branch of that name is
\* deleted from the default branch, then the branch is created and checked out
createPublishBranch(copy) ==
    LET cleaned == IF PublishBranch \in copy.branches
                   THEN IF checkout(copy, DefaultBranch).threw THEN copy
                        ELSE deleteLocalBranch(checkout(copy, DefaultBranch).repo,
                                               PublishBranch).repo
                   ELSE copy
    IN  IF PublishBranch \in cleaned.branches
        THEN GitResult(cleaned, TRUE)
        ELSE GitResult(Repo(PublishBranch, cleaned.branches \cup {PublishBranch}), FALSE)

PublishState(original, temp) ==
    [originalBranch |-> original, tempBranch |-> temp]

\* handleSuccess(state): the first command that throws ends the cleanup
handleSuccess(copy, state, pullThrows) ==
    LET onDefault == checkout(copy, DefaultBranch)
    IN  IF onDefault.threw THEN copy
        ELSE IF pullThrows THEN onDefault.repo
        ELSE deleteLocalBranch(onDefault.repo, state.tempBranch).repo

\* handleFailure(state)
handleFailure(copy, state) ==
    LET onOriginal == checkout(copy, state.originalBranch)
    IN  IF onOriginal.threw THEN copy
        ELSE deleteLocalBranch(onOriginal.repo, state.tempBranch).repo

\* handleTimeout(state)
handleTimeout(copy, state) ==
    LET onOriginal == checkout(copy, state.originalBranch)
    IN  IF onOriginal.threw THEN copy
        ELSE deleteLocalBranch(onOriginal.repo, state.tempBranch).repo

\* waitForPRCompletion: milliseconds
Timeout == 10 * 60 * 1000
InitialPollInterval == 5000
MaxPollInterval == 30000
RetryDelay == 5000

\* pollInterval after n rounds of pollInterval * 1.2, capped: whole
\* milliseconds of 5000 * (6/5)^n
PollInterval(n) ==
    IF n >= 10 THEN MaxPollInterval
    ELSE IF n <= 4 THEN 8 * (6 ^ n) * (5 ^ (4 - n))
    ELSE (8 * (6 ^ n)) \div (5 ^ (n - 4))

\* what checkPRStatus returns
PRStatus(state, statusCheckRollup) ==
    [state |-> state, statusCheckRollup |-> statusCheckRollup]

PRStatuses ==
    {PRStatus(state, rollup) : state \in {"OPEN", "MERGED", "CLOSED"},
                               rollup \in {"pending", "success", "failure"}}

\* the answers to 'What would you like to do?'
Answers == {"cleanup", "manual"}

CIFailed(status) == status.statusCheckRollup \in {"failure", "error", "cancelled"}

\* mutation: failed checks close the pull request without asking
RoundOutcome_NoPrompt(status, answer) ==
    IF status.state = "MERGED" THEN "merged"
    ELSE IF status.state = "CLOSED" THEN "closed"
    ELSE IF CIFailed(status) THEN "closed"
    ELSE "waiting"

\* one round of the loop of waitForPRCompletion on a status: the outcome
\* returned, "waiting" when the loop goes on
RoundOutcome(status, answer) ==
    IF status.state = "MERGED" THEN "merged"
    ELSE IF status.state = "CLOSED" THEN "closed"
    ELSE IF CIFailed(status)
         THEN IF answer = "cleanup" THEN "closed" ELSE "manual"
    ELSE "waiting"

----------------------------------------------------------------------------
(* The state machine *)

\* no schema text has been analysed
InitIntrospection ==
    /\ declaredFields = <<>>
    /\ schemaText = SchemaText(<<>>)
    /\ analysisResult = <<>>

\* no post file is being published
InitPublish ==
    /\ postFile = <<>>
    /\ fileBefore = <<>>
    /\ publishError = <<>>

\* no literal is being reconstructed
InitLiteral ==
    /\ literalValue = <<>>
    /\ evaluatedSchema = <<>>

\* no git workflow is running
InitGit ==
    /\ repo = Repo(DefaultBranch, {DefaultBranch})
    /\ originalBranch = <<>>
    /\ branchName = <<>>
    /\ elapsed = 0
    /\ rounds = 0
    /\ lastStatus = <<>>
    /\ lastAnswer = <<>>
    /\ waitResult = <<>>
    /\ ending = "none"

Init ==
    /\ dirExists \in BOOLEAN
    /\ files = <<>>
    /\ project \in Projects
    /\ pc = "idle"
    /\ call = <<>>
    /\ detection = <<>>
    /\ frameworkDetection = <<>>
    /\ useFrameworkInstead = FALSE
    /\ written = <<>>
    /\ configSource = EmptySource
    /\ parsedCollections = <<>>
    /\ generatedTemplate = <<>>
    /\ InitIntrospection
    /\ InitPublish
    /\ InitGit
    /\ InitLiteral

InitLearn ==
    /\ dirExists \in BOOLEAN
    /\ files = <<>>
    /\ project = NoProject
    /\ pc = "idle"
    /\ call = <<>>
    /\ detection = <<>>
    /\ frameworkDetection = <<>>
    /\ useFrameworkInstead = FALSE
    /\ written = <<>>
    /\ configSource = EmptySource
    /\ parsedCollections = <<>>
    /\ generatedTemplate = <<>>
    /\ InitIntrospection
    /\ InitPublish
    /\ InitGit
    /\ InitLiteral

\* the environment puts one more file into the content directory
AddFile(pool, max) ==
    /\ pc = "idle"
    /\ dirExists
    /\ Len(files) < max
    /\ \E file \in pool : files' = Append(files, file)
    /\ UNCHANGED <<dirExists, project, pc, call, detection, frameworkDetection,
                   useFrameworkInstead, written, configSource, parsedCollections,
                   generatedTemplate,
                   introspectionVars, publishVars, gitVars, literalVars>>

AddPostFile == AddFile(CreatePool, MaxFiles)

AddSample == AddFile(LearnPool, MaxSamples)

\* a call of detectFrontmatterPattern(contentDir, maxPosts)
DetectFrontmatterPattern ==
    /\ pc = "idle"
    /\ \E maxPosts \in MaxPostsChoices, now \in Clock :
          /\ call' = <<[op |-> "detectFrontmatterPattern", maxPosts |-> maxPosts,
                        now |-> now, options |-> NoOptions]>>
          /\ detection' = <<detectFrontmatterPattern(dirExists, files, maxPosts, now)>>
    /\ pc' = "detected"
    /\ UNCHANGED <<dirExists, files, project, frameworkDetection, useFrameworkInstead,
                   written, configSource, parsedCollections, generatedTemplate,
                   introspectionVars, publishVars, gitVars, literalVars>>

\* a call of createPost(options)
CreatePost ==
    /\ pc = "idle"
    /\ \E options \in OptionsPool, now \in Clock :
          LET result == createPost(dirExists, files, project, options, now)
          IN  /\ call' = <<[op |-> "createPost", maxPosts |-> MaxPostsDefault,
                            now |-> now, options |-> options]>>
              /\ detection' = <<result.detection>>
              /\ frameworkDetection' = <<result.frameworkDetection>>
              /\ useFrameworkInstead' = result.useFrameworkInstead
              /\ written' = <<result.post>>
    /\ pc' = "written"
    /\ UNCHANGED <<dirExists, files, project, configSource, parsedCollections, generatedTemplate,
                   introspectionVars, publishVars, gitVars, literalVars>>

Next == AddPostFile \/ CreatePost

Spec == Init /\ [][Next]_vars

NextLearn == AddSample \/ DetectFrontmatterPattern

SpecLearn == InitLearn /\ [][NextLearn]_vars

\* the schema parser on its own: a config source is written statement by
\* statement, possibly left unparsable, and then analysed
InitParse ==
    /\ dirExists = FALSE
    /\ files = <<>>
    /\ project = NoProject
    /\ pc = "idle"
    /\ call = <<>>
    /\ detection = <<>>
    /\ frameworkDetection = <<>>
    /\ useFrameworkInstead = FALSE
    /\ written = <<>>
    /\ configSource = EmptySource
    /\ parsedCollections = <<>>
    /\ generatedTemplate = <<>>
    /\ InitIntrospection
    /\ InitPublish
    /\ InitGit
    /\ InitLiteral

\* one more statement at the end of the config source
AddStatement ==
    /\ pc = "idle"
    /\ Len(configSource.body) < MaxStatements
    /\ \E i \in DOMAIN StatementPool :
          configSource' = [configSource EXCEPT !.body = Append(@, StatementPool[i])]
    /\ UNCHANGED <<dirExists, files, project, pc, call, detection, frameworkDetection,
                   useFrameworkInstead, written, parsedCollections, generatedTemplate,
                   introspectionVars, publishVars, gitVars, literalVars>>

\* an edit that leaves the text of the config source unparsable
BreakSyntax ==
    /\ pc = "idle"
    /\ ~configSource.malformed
    /\ configSource' = [configSource EXCEPT !.malformed = TRUE]
    /\ UNCHANGED <<dirExists, files, project, pc, call, detection, frameworkDetection,
                   useFrameworkInstead, written, parsedCollections, generatedTemplate,
                   introspectionVars, publishVars, gitVars, literalVars>>

\* a call of parseConfigFromSource(configContent)
ParseConfigFromSource ==
    /\ pc = "idle"
    /\ parsedCollections' = parseConfigFromSource(configSource)
    /\ pc' = "parsed"
    /\ UNCHANGED <<dirExists, files, project, call, detection, frameworkDetection,
                   useFrameworkInstead, written, configSource, generatedTemplate,
                   introspectionVars, publishVars, gitVars, literalVars>>

\* a call of astroSchemaAnalyzer.generateTemplate(collection) with one of
\* the collections the parser returned
GenerateTemplate ==
    /\ pc = "parsed"
    /\ \E i \in DOMAIN parsedCollections, now \in Clock :
          /\ call' = <<[op |-> "generateTemplate", collection |-> parsedCollections[i],
                        now |-> now]>>
          /\ generatedTemplate' = <<astroGenerateTemplate(parsedCollections[i], now)>>
    /\ pc' = "generated"
    /\ UNCHANGED <<dirExists, files, project, detection, frameworkDetection,
                   useFrameworkInstead, written, configSource, parsedCollections,
                   introspectionVars, publishVars, gitVars, literalVars>>

NextParse == AddStatement \/ BreakSyntax \/ ParseConfigFromSource \/ GenerateTemplate

SpecParse == InitParse /\ [][NextParse]_vars

----------------------------------------------------------------------------

\* the text-based schema analysis on its own: a schema is written field by
\* field, possibly cut short, and then analysed
InitAnalyze ==
    /\ dirExists = FALSE
    /\ files = <<>>
    /\ project = NoProject
    /\ pc = "idle"
    /\ call = <<>>
    /\ detection = <<>>
    /\ frameworkDetection = <<>>
    /\ useFrameworkInstead = FALSE
    /\ written = <<>>
    /\ configSource = EmptySource
    /\ parsedCollections = <<>>
    /\ generatedTemplate = <<>>
    /\ InitIntrospection
    /\ InitPublish
    /\ InitGit
    /\ InitLiteral

\* one more field at the end of the schema object
AddSchemaField ==
    /\ pc = "idle"
    /\ Len(declaredFields) < MaxSchemaFields
    /\ schemaText = SchemaText(declaredFields)
    /\ \E i \in DOMAIN FieldTextPool :
          /\ declaredFields' = Append(declaredFields, FieldTextPool[i])
          /\ schemaText' = SchemaText(Append(declaredFields, FieldTextPool[i]))
    /\ UNCHANGED <<pc, call, analysisResult, createVars, parserVars,
                   publishVars, gitVars, literalVars>>

\* an edit that loses the end of the text, the closing braces with it
CutSchemaText ==
    /\ pc = "idle"
    /\ schemaText = SchemaText(declaredFields)
    /\ schemaText' = SubSeq(schemaText, 1, Len(schemaText) - 9)
    /\ UNCHANGED <<pc, call, declaredFields, analysisResult, createVars, parserVars,
                   publishVars, gitVars, literalVars>>

\* a call of schemaIntrospectionService.analyzeSchema(schemaText)
AnalyzeSchema ==
    /\ pc = "idle"
    /\ analysisResult' = <<analyzeSchema(schemaText)>>
    /\ pc' = "analysed"
    /\ UNCHANGED <<call, declaredFields, schemaText, createVars, parserVars,
                   publishVars, gitVars, literalVars>>

NextAnalyze == AddSchemaField \/ CutSchemaText \/ AnalyzeSchema

SpecAnalyze == InitAnalyze /\ [][NextAnalyze]_vars

----------------------------------------------------------------------------

\* publishPost and unpublishPost on their own: calls, one after the other,
\* on a post file that exists or not
InitPublishing ==
    /\ dirExists = FALSE
    /\ files = <<>>
    /\ project = NoProject
    /\ pc = "idle"
    /\ call = <<>>
    /\ detection = <<>>
    /\ frameworkDetection = <<>>
    /\ useFrameworkInstead = FALSE
    /\ written = <<>>
    /\ configSource = EmptySource
    /\ parsedCollections = <<>>
    /\ generatedTemplate = <<>>
    /\ InitIntrospection
    /\ postFile \in {<<>>} \cup {<<PostFile(data, body)>> : data \in PostDataPool,
                                                            body \in PostBodyPool}
    /\ fileBefore = <<>>
    /\ publishError = <<>>
    /\ InitGit
    /\ InitLiteral

\* a call of publishPost({filePath, publishDate})
PublishPost ==
    /\ pc \in {"idle", "published", "unpublished"}
    /\ \E publishDate \in PublishDates :
          /\ call' = <<[op |-> "publishPost", publishDate |-> publishDate]>>
          /\ postFile' = publishPost(postFile, publishDate).file
          /\ publishError' = publishPost(postFile, publishDate).error
    /\ fileBefore' = postFile
    /\ pc' = "published"
    /\ UNCHANGED <<createVars, parserVars, introspectionVars, gitVars, literalVars>>

\* a call of unpublishPost({filePath})
UnpublishPost ==
    /\ pc \in {"idle", "published", "unpublished"}
    /\ call' = <<[op |-> "unpublishPost"]>>
    /\ postFile' = unpublishPost(postFile).file
    /\ publishError' = unpublishPost(postFile).error
    /\ fileBefore' = postFile
    /\ pc' = "unpublished"
    /\ UNCHANGED <<createVars, parserVars, introspectionVars, gitVars, literalVars>>

NextPublish == PublishPost \/ UnpublishPost

SpecPublish == InitPublishing /\ [][NextPublish]_vars

----------------------------------------------------------------------------

\* executeGitWorkflow with autoPush on its own: the branch, the post action,
\* the pull request, the wait and the cleanup
InitWorkflow ==
    /\ dirExists = FALSE
    /\ files = <<>>
    /\ project = NoProject
    /\ pc = "idle"
    /\ call = <<>>
    /\ detection = <<>>
    /\ frameworkDetection = <<>>
    /\ useFrameworkInstead = FALSE
    /\ written = <<>>
    /\ configSource = EmptySource
    /\ parsedCollections = <<>>
    /\ generatedTemplate = <<>>
    /\ InitIntrospection
    /\ InitPublish
    /\ \E current \in Branches : repo = Repo(current, {DefaultBranch, current})
    /\ originalBranch = <<>>
    /\ branchName = <<>>
    /\ elapsed = 0
    /\ rounds = 0
    /\ lastStatus = <<>>
    /\ lastAnswer = <<>>
    /\ waitResult = <<>>
    /\ ending = "none"
    /\ InitLiteral

\* cli.ts 135-164: the original branch is stored; when the working copy is
\* not safe and the user does not proceed the process exits, otherwise the
\* publish branch is created
CreateBranch ==
    /\ pc = "idle"
    /\ originalBranch' = <<repo.current>>
    /\ \E safe \in BOOLEAN, proceed \in BOOLEAN :
          IF ~safe /\ ~proceed
          THEN /\ ending' = "unsafe"
               /\ pc' = "exited"
               /\ UNCHANGED <<repo, branchName>>
          ELSE /\ repo' = createPublishBranch(repo).repo
               /\ branchName' = <<PublishBranch>>
               /\ pc' = "branched"
               /\ UNCHANGED ending
    /\ UNCHANGED <<call, elapsed, rounds, lastStatus, lastAnswer, waitResult,
                   createVars, parserVars, introspectionVars, publishVars, literalVars>>

\* cli.ts 166-222, 242-266: validation, the post action, commit, push and
\* pull request.  The user declining after validation errors exits the
\* process; a step that throws is caught and handleFailure runs
PublishAndOpenPR ==
    /\ pc = "branched"
    /\ \E valid \in BOOLEAN, proceed \in BOOLEAN, throws \in BOOLEAN :
          IF ~valid /\ ~proceed
          THEN /\ ending' = "declined"
               /\ pc' = "exited"
               /\ UNCHANGED <<repo, elapsed, rounds>>
          ELSE IF throws
          THEN /\ repo' = handleFailure(repo, PublishState(originalBranch[1], branchName[1]))
               /\ ending' = "error"
               /\ pc' = "exited"
               /\ UNCHANGED <<elapsed, rounds>>
          ELSE /\ elapsed' = 0
               /\ rounds' = 0
               /\ pc' = "waiting"
               /\ UNCHANGED <<repo, ending>>
    /\ UNCHANGED <<call, originalBranch, branchName, lastStatus, lastAnswer, waitResult,
                   createVars, parserVars, introspectionVars, publishVars, literalVars>>

\* git-utils.ts 473-562: one round of the loop of waitForPRCompletion in
\* which checkPRStatus returns a status
CheckStatus ==
    /\ pc = "waiting"
    /\ elapsed < Timeout
    /\ \E status \in PRStatuses, answer \in Answers :
          /\ lastStatus' = <<status>>
          /\ lastAnswer' = IF status.state = "OPEN" /\ CIFailed(status)
                           THEN <<answer>> ELSE <<>>
          /\ IF RoundOutcome(status, answer) = "waiting"
             THEN /\ elapsed' = elapsed + PollInterval(rounds)
                  /\ rounds' = rounds + 1
                  /\ UNCHANGED <<pc, waitResult>>
             ELSE /\ waitResult' = <<RoundOutcome(status, answer)>>
                  /\ pc' = "waited"
                  /\ UNCHANGED <<elapsed, rounds>>
    /\ UNCHANGED <<call, repo, originalBranch, branchName, ending,
                   createVars, parserVars, introspectionVars, publishVars, literalVars>>

\* git-utils.ts 563-566: a round in which checkPRStatus throws
CheckThrows ==
    /\ pc = "waiting"
    /\ elapsed < Timeout
    /\ lastStatus' = <<>>
    /\ lastAnswer' = <<>>
    /\ elapsed' = elapsed + RetryDelay
    /\ UNCHANGED <<pc, call, repo, originalBranch, branchName, rounds, waitResult, ending,
                   createVars, parserVars, introspectionVars, publishVars, literalVars>>

\* git-utils.ts 473, 569-570: the loop ends on the clock
TimeOut ==
    /\ pc = "waiting"
    /\ ~(elapsed < Timeout)
    /\ waitResult' = <<"timeout">>
    /\ pc' = "waited"
    /\ UNCHANGED <<call, repo, originalBranch, branchName, elapsed, rounds, lastStatus,
                   lastAnswer, ending, createVars, parserVars, introspectionVars,
                   publishVars, literalVars>>

\* cli.ts 225-239: the result of the wait is handled
HandleResult ==
    /\ pc = "waited"
    /\ \E pullThrows \in BOOLEAN :
          repo' = CASE waitResult[1] = "merged" ->
                         handleSuccess(repo, PublishState(originalBranch[1], branchName[1]),
                                       pullThrows)
                    [] waitResult[1] = "closed" ->
                         handleFailure(repo, PublishState(originalBranch[1], branchName[1]))
                    [] waitResult[1] = "timeout" ->
                         handleTimeout(repo, PublishState(originalBranch[1], branchName[1]))
                    [] OTHER -> repo
    /\ ending' = waitResult[1]
    /\ pc' = "exited"
    /\ UNCHANGED <<call, originalBranch, branchName, elapsed, rounds, lastStatus,
                   lastAnswer, waitResult, createVars, parserVars, introspectionVars,
                   publishVars, literalVars>>

NextWorkflow ==
    CreateBranch \/ PublishAndOpenPR \/ CheckStatus \/ CheckThrows \/ TimeOut \/ HandleResult

SpecWorkflow == InitWorkflow /\ [][NextWorkflow]_vars

----------------------------------------------------------------------------

\* the reconstruction of a string literal on its own: a schema
\* z.string().default("...") whose literal is written character by
\* character, then reconstructed and evaluated
LiteralCharacters == {"n", ",", Quote, "\\", "\n"}

\* the node of z.string().default(literal)
DefaultSchemaNode(literal) ==
    CallExpression(
        MemberExpression(
            CallExpression(MemberExpression(Identifier("z"), Identifier("string")), <<>>),
            Identifier("default")),
        <<literal>>)

InitReconstruct ==
    /\ dirExists = FALSE
    /\ files = <<>>
    /\ project = NoProject
    /\ pc = "idle"
    /\ call = <<>>
    /\ detection = <<>>
    /\ frameworkDetection = <<>>
    /\ useFrameworkInstead = FALSE
    /\ written = <<>>
    /\ configSource = EmptySource
    /\ parsedCollections = <<>>
    /\ generatedTemplate = <<>>
    /\ InitIntrospection
    /\ InitPublish
    /\ InitGit
    /\ InitLiteral

\* one more character in the string the literal stands for
TypeCharacter ==
    /\ pc = "idle"
    /\ Len(literalValue) < MaxLiteralLength
    /\ \E c \in LiteralCharacters : literalValue' = Append(literalValue, c)
    /\ UNCHANGED <<pc, call, evaluatedSchema, createVars, parserVars, introspectionVars,
                   publishVars, gitVars>>

\* a call of astNodeToZodSchema on the schema node
ReconstructSchema ==
    /\ pc = "idle"
    /\ evaluatedSchema' = <<astNodeToZodSchema(DefaultSchemaNode(StringLiteral(literalValue)))>>
    /\ pc' = "reconstructed"
    /\ UNCHANGED <<call, literalValue, createVars, parserVars, introspectionVars,
                   publishVars, gitVars>>

NextReconstruct == TypeCharacter \/ ReconstructSchema

SpecReconstruct == InitReconstruct /\ [][NextReconstruct]_vars

----------------------------------------------------------------------------
(* Vocabulary of the properties *)

Written == pc = "written"

Detected == pc = "detected"

\* the samples the last call analysed
Analysed == FrontmatterSamples(files, call[1].maxPosts)

SampleCount == IF dirExists /\ Len(call) > 0 THEN Len(Analysed) ELSE 0

\* the detection produced a pattern and a template
HasPatternTemplate ==
    /\ Len(detection) > 0
    /\ detection[1].success
    /\ Len(detection[1].suggestedTemplate) > 0

PatternOf == detection[1].pattern[1]

TemplateOf == detection[1].suggestedTemplate[1]

HasFramework == Len(frameworkDetection) > 0 /\ Len(frameworkDetection[1].primary) > 0

PrimaryOf == frameworkDetection[1].primary[1]

\* the fields of the schema-derived model: the collection whose template
\* framework detection suggests
SchemaModelFields ==
    IF HasFramework /\ PrimaryOf.name = "Astro"
       /\ Len(frameworkDetection[1].astroCollections) > 0
    THEN frameworkDetection[1].astroCollections[1].fields
    ELSE <<>>

\* the pattern template holds {} for a field the schema model declares as a
\* non-required object or image
EmptyObjectConflict ==
    /\ HasPatternTemplate
    /\ \E i \in DOMAIN TemplateOf, j \in DOMAIN SchemaModelFields :
          /\ SchemaModelFields[j].name = TemplateOf[i].name
          /\ SchemaModelFields[j].type \in {"object", "image"}
          /\ ~SchemaModelFields[j].required
          /\ TemplateOf[i].value = Obj(<<>>)

FrontmatterOf == written[1].frontmatter

KeySeq(m) == [i \in DOMAIN m |-> m[i].name]

SeqToSet(q) == {q[i] : i \in DOMAIN q}

\* number of analysed samples that carry the field
Occurrences(fieldName) ==
    Cardinality({i \in DOMAIN Analysed : Has(Analysed[i], fieldName)})

ObservedNames == UNION {Keys(Analysed[i]) : i \in DOMAIN Analysed}

\* the tiers of the pattern, as sets
RequiredSet == SeqToSet(PatternOf.requiredFields)
OptionalSet == SeqToSet(PatternOf.optionalFields)
RareSet == SeqToSet(PatternOf.rareFields)

----------------------------------------------------------------------------
(* C1: when both a pattern template and a framework model are available    *)
(* and the template has no empty-object conflict with the schema model,    *)
(* createPost prefers the framework model exactly when the pattern         *)
(* confidence is below 0.7 and the framework confidence is above 0.8.      *)
C1_ConfidenceRule ==
    (Written /\ HasPatternTemplate /\ HasFramework /\ ~EmptyObjectConflict)
        => (useFrameworkInstead <=>
               (PatternOf.confidence < 7 /\ PrimaryOf.confidence > 8))

\* pattern 0.5 against framework 0.9: the framework model is chosen
C1_Witness ==
    /\ Written /\ HasPatternTemplate /\ HasFramework /\ ~EmptyObjectConflict
    /\ PatternOf.confidence = 5
    /\ PrimaryOf.confidence = 9
    /\ useFrameworkInstead

\* pattern 0.9 against framework 0.5: the pattern is kept
C1_WitnessPattern ==
    /\ Written /\ HasPatternTemplate /\ HasFramework /\ ~EmptyObjectConflict
    /\ PatternOf.confidence >= 8
    /\ PrimaryOf.confidence = 5
    /\ ~useFrameworkInstead

(* C2: whenever the pattern template holds an empty object for a field the *)
(* schema model declares as a non-required object or image, the schema     *)
(* model is preferred, whatever the two confidences are.                   *)
C2_EmptyObjectConflictPrefersSchema ==
    (Written /\ HasFramework /\ EmptyObjectConflict) => useFrameworkInstead

(* C3: without a framework model, createPost builds on the pattern's       *)
(* template when detection produced one, and otherwise writes the minimal  *)
(* frontmatter with exactly the keys title, date, author, description,     *)
(* tags, draft.                                                            *)
UserKeys == {"title", "author", "tags", "description"}

C3_NoFrameworkFallback ==
    (Written /\ ~HasFramework)
        => IF HasPatternTemplate
           THEN /\ Keys(TemplateOf) \subseteq Keys(FrontmatterOf)
                /\ Keys(FrontmatterOf) \ Keys(TemplateOf) \subseteq UserKeys
                /\ \A i \in DOMAIN TemplateOf :
                      TemplateOf[i].name \notin UserKeys \cup {"draft", "published", "date",
                                                               "publishedAt", "publishDate"}
                          => Get(FrontmatterOf, TemplateOf[i].name) = TemplateOf[i].value
           ELSE KeySeq(FrontmatterOf) =
                    <<"title", "date", "author", "description", "tags", "draft">>

\* the fallback case: no framework, no pattern, the six keys
C3_Witness ==
    /\ Written /\ ~HasFramework /\ ~HasPatternTemplate
    /\ Len(files) > 0
    /\ Keys(FrontmatterOf) = {"title", "date", "author", "description", "tags", "draft"}

\* the pattern case: no framework, the template's own field is written
C3_WitnessPattern ==
    /\ Written /\ ~HasFramework /\ HasPatternTemplate
    /\ Has(FrontmatterOf, "views")

C4_WitnessBoundary ==
    /\ Detected /\ HasPatternTemplate
    /\ Len(Analysed) = 5
    /\ \E f \in RequiredSet : Occurrences(f) = 4
    /\ \E f \in OptionalSet : Occurrences(f) = 1

(* C5 as stated: with at least 2 samples the confidence is                 *)
(* min(1.0, 0.6 + 0.2 [title >= 80%] + 0.2 [some date-like alias >= 80%]   *)
(* + 0.1 [at least 3 fields >= 80%] + 0.1 [at least 5 samples]), the       *)
(* date-like aliases being date, publishedAt, publishDate and their        *)
(* siblings created, updatedAt, modified, lastmod.                         *)
Frequent(f) == 5 * Occurrences(f) >= 4 * Len(Analysed)

ExpectedConfidence(dateNames) ==
    Min(10,
        6 + (IF "title" \in ObservedNames /\ Frequent("title") THEN 2 ELSE 0)
          + (IF \E f \in ObservedNames : f \in dateNames /\ Frequent(f) THEN 2 ELSE 0)
          + (IF Cardinality({f \in ObservedNames : Frequent(f)}) >= 3 THEN 1 ELSE 0)
          + (IF Len(Analysed) >= 5 THEN 1 ELSE 0))

C5_ConfidenceWithSiblings ==
    (Detected /\ HasPatternTemplate /\ Len(Analysed) >= 2)
        => PatternOf.confidence =
              ExpectedConfidence({f \in ObservedNames : ToLowerCase(f) \in DateLikeNames})

(* C5 amended: the same sum, the date bonus being given for exactly the    *)
(* field names date, publishedAt and publishDate.                          *)
C5_Confidence ==
    (Detected /\ HasPatternTemplate /\ Len(Analysed) >= 2)
        => PatternOf.confidence = ExpectedConfidence({"date", "publishedAt", "publishDate"})

\* every bonus applies and the sum is capped at 1.0
C5_Witness ==
    /\ Detected /\ HasPatternTemplate
    /\ Len(Analysed) >= 5
    /\ Frequent("title") /\ Frequent("date")
    /\ Cardinality({f \in ObservedNames : Frequent(f)}) >= 3
    /\ PatternOf.confidence = 10

\* a sibling at 100% earns no date bonus
C5_WitnessSibling ==
    /\ Detected /\ HasPatternTemplate
    /\ Len(Analysed) >= 2
    /\ "created" \in ObservedNames /\ Frequent("created")
    /\ PatternOf.confidence = 7

(* C6 as stated: with fewer than 2 samples, 1 or 0, detection reports the  *)
(* confidence 0.5.                                                         *)
C6_LowSampleConfidenceAlways ==
    (Detected /\ SampleCount < 2)
        => /\ Len(detection[1].pattern) > 0
           /\ PatternOf.confidence = 5

(* C6 amended: with exactly 1 sample detection reports the confidence 0.5  *)
(* whatever the frontmatter holds; with 0 samples detection fails and      *)
(* reports no pattern, hence no confidence (the confidence formula would   *)
(* give 0.5 for 0 samples, but detection returns before it is computed).   *)
C6_LowSampleConfidence ==
    Detected
        => /\ SampleCount = 1
                => /\ detection[1].success
                   /\ Len(detection[1].pattern) > 0
                   /\ PatternOf.confidence = 5
           /\ SampleCount = 0
                => /\ ~detection[1].success
                   /\ detection[1].pattern = <<>>
                   /\ calculateConfidence(<<>>, 0) = 5

\* one sample with title and date, which two samples would score at 1.0
C6_Witness ==
    /\ Detected /\ SampleCount = 1
    /\ Has(Analysed[1], "title") /\ Has(Analysed[1], "date")
    /\ PatternOf.confidence = 5

(* C7: for consistent samples (same field set, same value types) the       *)
(* confidence of a prefix is never greater than the confidence of the      *)
(* whole sequence.                                                          *)
ValueTypeOf(v) == IF v.k = "array" THEN "array" ELSE TypeOf(v)

SameShape(a, b) ==
    /\ Keys(a) = Keys(b)
    /\ \A f \in Keys(a) : ValueTypeOf(Get(a, f)) = ValueTypeOf(Get(b, f))

Consistent(samples) == \A i, j \in DOMAIN samples : SameShape(samples[i], samples[j])

C7_ConfidenceMonotone ==
    (Detected /\ HasPatternTemplate /\ Consistent(Analysed))
        => \A i \in 1..Len(Analysed) :
              analyzeFrontmatterPatterns(SubSeq(Analysed, 1, i)).confidence
                  <= PatternOf.confidence

\* five consistent samples with different values: 0.5, then 1.0
C7_Witness ==
    /\ Detected /\ HasPatternTemplate /\ Consistent(Analysed)
    /\ Len(Analysed) >= 5
    /\ \E i, j \in DOMAIN Analysed : Analysed[i] # Analysed[j]
    /\ analyzeFrontmatterPatterns(SubSeq(Analysed, 1, 1)).confidence < PatternOf.confidence

(* C8: when createPost builds on a pattern whose date-like field has only  *)
(* plain YYYY-MM-DD string examples, that field of the written frontmatter *)
(* is a plain YYYY-MM-DD string, not a date instant.                       *)
UsesPattern == Written /\ HasPatternTemplate /\ ~useFrameworkInstead

IsPlainDateString(v) == v.k = "string" /\ IsSimpleDateFormat(v.s)

AllExamples(fieldPattern, P(_)) ==
    \A i \in DOMAIN fieldPattern.examples : P(fieldPattern.examples[i])

IsDateLikeField(fieldPattern) == ToLowerCase(fieldPattern.fieldName) \in DateLikeNames

InTemplateTiers(fieldPattern) ==
    fieldPattern.fieldName \in RequiredSet \cup OptionalSet

C8_DateConventionReachesPost ==
    UsesPattern
        => \A i \in DOMAIN PatternOf.commonFields :
              LET fp == PatternOf.commonFields[i]
              IN  (IsDateLikeField(fp) /\ InTemplateTiers(fp) /\ AllExamples(fp, IsPlainDateString))
                     => /\ Has(FrontmatterOf, fp.fieldName)
                        /\ IsPlainDateString(Get(FrontmatterOf, fp.fieldName))

(* C9: in the suggested template a date-like field gets a YYYY-MM-DD       *)
(* string when all its examples are plain YYYY-MM-DD strings, a timestamp  *)
(* string when its examples are strings in richer formats, and a date      *)
(* instant when its examples are date instants.                            *)
IsRichDateString(v) == v.k = "string" /\ ~IsSimpleDateFormat(v.s)

IsTimestampString(v) == v.k = "string" /\ IsISOTimestamp(v.s)

C9_DateFormatInference ==
    (Detected /\ HasPatternTemplate)
        => \A i \in DOMAIN PatternOf.commonFields :
              LET fp == PatternOf.commonFields[i]
              IN  (IsDateLikeField(fp) /\ InTemplateTiers(fp))
                     => /\ AllExamples(fp, IsPlainDateString)
                             => /\ Has(TemplateOf, fp.fieldName)
                                /\ IsPlainDateString(Get(TemplateOf, fp.fieldName))
                        /\ AllExamples(fp, IsRichDateString)
                             => /\ Has(TemplateOf, fp.fieldName)
                                /\ IsTimestampString(Get(TemplateOf, fp.fieldName))
                        /\ AllExamples(fp, InstanceOfDate)
                             => /\ Has(TemplateOf, fp.fieldName)
                                /\ InstanceOfDate(Get(TemplateOf, fp.fieldName))

(* C10: a required or optional field whose recorded examples are all empty *)
(* objects is left out of the suggested template; it is never emitted as   *)
(* {}.                                                                      *)
IsEmptyPlainObject(v) == v.k = "object" /\ Len(v.s) = 0

C10_EmptyObjectSuppression ==
    (Detected /\ HasPatternTemplate)
        => \A i \in DOMAIN PatternOf.commonFields :
              LET fp == PatternOf.commonFields[i]
              IN  (InTemplateTiers(fp) /\ AllExamples(fp, IsEmptyPlainObject))
                     => ~Has(TemplateOf, fp.fieldName)

\* heroImage is {} in every sample, is required, and is not in the template,
\* which still has the other fields
C10_Witness ==
    /\ Detected /\ HasPatternTemplate
    /\ Len(Analysed) >= 3
    /\ \E i \in DOMAIN PatternOf.commonFields :
          /\ PatternOf.commonFields[i].fieldName = "heroImage"
          /\ "heroImage" \in RequiredSet
          /\ AllExamples(PatternOf.commonFields[i], IsEmptyPlainObject)
          /\ Len(PatternOf.commonFields[i].examples) = 3
    /\ ~Has(TemplateOf, "heroImage")
    /\ Len(TemplateOf) > 0

(* C11: the keys of the suggested template are exactly the required and    *)
(* optional fields whose examples are not all empty objects {}; no rare    *)
(* field is a key of the template.                                         *)
FieldPatternOf(fieldName) == FindField(PatternOf.commonFields, fieldName)

EmptyObjectNoise(fieldName) == AllExamples(FieldPatternOf(fieldName), IsEmptyPlainObject)

C11_TemplateKeys ==
    (Detected /\ HasPatternTemplate)
        => /\ Keys(TemplateOf) =
                 {f \in RequiredSet \cup OptionalSet : ~EmptyObjectNoise(f)}
           /\ Keys(TemplateOf) \cap RareSet = {}

(* C12: in the suggested template, matching on the lower-cased field name, *)
(* title is "", draft is true, tags and categories are [], author and      *)
(* description are "", published is false, whatever value types were       *)
(* observed; every other field that is not date-like holds the default of  *)
(* an observed type: boolean false, number 0, array [], object {},         *)
(* anything else "".                                                       *)
TypeDefault(type) ==
    CASE type = "boolean" -> Bool(FALSE)
      [] type = "number" -> Num(0)
      [] type = "array" -> Arr(<<>>)
      [] type = "object" -> Obj(<<>>)
      [] OTHER -> Str(<<>>)

ObservedTypes(fieldName) ==
    {ValueTypeOf(Get(Analysed[i], fieldName)) :
        i \in {j \in DOMAIN Analysed : Has(Analysed[j], fieldName)}}

C12_DefaultValues ==
    HasPatternTemplate
        => \A i \in DOMAIN TemplateOf :
              LET f == TemplateOf[i].name
                  v == TemplateOf[i].value
                  lower == ToLowerCase(f)
              IN  CASE lower = "title" -> v = Str(<<>>)
                    [] lower = "draft" -> v = Bool(TRUE)
                    [] lower \in {"tags", "categories"} -> v = Arr(<<>>)
                    [] lower \in {"author", "description"} -> v = Str(<<>>)
                    [] lower = "published" -> v = Bool(FALSE)
                    [] lower \in DateLikeNames -> TRUE
                    [] OTHER -> v \in {TypeDefault(t) : t \in ObservedTypes(f)}

\* conventional names spelled and typed unconventionally, next to one field
\* of each kind without a convention
C12_Witness ==
    /\ Written /\ HasPatternTemplate
    /\ Has(TemplateOf, "Title") /\ Get(TemplateOf, "Title") = Str(<<>>)
    /\ Num(5) \in {Get(Analysed[i], "Title") : i \in {j \in DOMAIN Analysed : Has(Analysed[j], "Title")}}
    /\ Get(TemplateOf, "draft") = Bool(TRUE)
    /\ Get(TemplateOf, "Published") = Bool(FALSE)
    /\ Get(TemplateOf, "featured") = Bool(FALSE)
    /\ Get(TemplateOf, "rating") = Num(0)
    /\ Get(TemplateOf, "related") = Arr(<<>>)
    /\ Get(TemplateOf, "seo") = Obj(<<>>)
    /\ Get(TemplateOf, "subtitle") = Str(<<>>)

\* a field observed with two types holds the default of one of them
C12_WitnessMixed ==
    /\ Written /\ HasPatternTemplate
    /\ ObservedTypes("views") = {"number", "string"}
    /\ Has(TemplateOf, "views") /\ Get(TemplateOf, "views") = Num(0)

(* C13: for a missing directory, a directory without markdown files and a  *)
(* directory in which no sampled file yields frontmatter,                  *)
(* detectFrontmatterPattern returns success = false with no pattern and no *)
(* template, and a reason of its own for each of the three cases; success  *)
(* is true exactly when the pattern and the template are there.            *)
MarkdownFiles == SelectSeq(files, IsMarkdown)

FailsWith(message) ==
    /\ ~detection[1].success
    /\ detection[1].pattern = <<>>
    /\ detection[1].suggestedTemplate = <<>>
    /\ detection[1].message = message

C13_FailureReasons ==
    Len(detection) > 0
        => /\ ~dirExists => FailsWith("Directory not found")
           /\ (dirExists /\ Len(MarkdownFiles) = 0)
                 => FailsWith("No markdown files found to analyze")
           /\ (dirExists /\ Len(MarkdownFiles) > 0 /\ Len(Analysed) = 0)
                 => FailsWith("No valid frontmatter found in existing posts")
           /\ detection[1].success <=> detection[1].pattern # <<>>
           /\ detection[1].success <=> detection[1].suggestedTemplate # <<>>

\* markdown files are there, none yields frontmatter
C13_Witness ==
    /\ Len(detection) > 0 /\ dirExists
    /\ Len(MarkdownFiles) = 2 /\ Len(Analysed) = 0
    /\ FailsWith("No valid frontmatter found in existing posts")

\* files are there, none is markdown
C13_WitnessNoMarkdown ==
    /\ Len(detection) > 0 /\ dirExists
    /\ Len(files) > 0 /\ Len(MarkdownFiles) = 0
    /\ FailsWith("No markdown files found to analyze")

\* the directory is missing
C13_WitnessNoDirectory ==
    /\ Len(detection) > 0 /\ ~dirExists
    /\ FailsWith("Directory not found")

(* C14: a sampled file whose frontmatter fails to parse is skipped without *)
(* failing the analysis: whenever some sampled file parses with non-empty  *)
(* frontmatter, detection succeeds and totalPosts is the number of such    *)
(* files.                                                                  *)
Sampled == SubSeq(MarkdownFiles, 1, Min(Len(MarkdownFiles), call[1].maxPosts))

WellFormedCount ==
    Cardinality({i \in DOMAIN Sampled : Sampled[i].parse = "ok" /\ Len(Sampled[i].data) > 0})

C14_MalformedTolerance ==
    (Len(detection) > 0 /\ dirExists /\ WellFormedCount > 0)
        => /\ detection[1].success
           /\ Len(detection[1].pattern) > 0
           /\ PatternOf.totalPosts = WellFormedCount

\* one well-formed post and one malformed post
C14_Witness ==
    /\ Len(detection) > 0 /\ dirExists
    /\ Len(Sampled) = 2
    /\ \E i \in DOMAIN Sampled : Sampled[i].parse = "malformed"
    /\ detection[1].success
    /\ PatternOf.totalPosts = 1

----------------------------------------------------------------------------
(* Vocabulary of the schema parser's properties: what the config source    *)
(* declares, read off its statements                                       *)

ConfigParsed == pc = "parsed"

\* the properties of every `export const collections = {...}` statement
\* that name a collection by an identifier key
ExportProperties ==
    {p \in UNION {{configSource.body[i].declaration[1].declarations[1].init.properties[j] :
                      j \in DOMAIN configSource.body[i].declaration[1].declarations[1].init.properties} :
                  i \in {k \in DOMAIN configSource.body :
                            /\ IsCollectionsExport(configSource.body[k])
                            /\ configSource.body[k].declaration[1].declarations[1].init.type
                                   = "ObjectExpression"}} :
        p.type = "ObjectProperty" /\ p.key.type = "Identifier"}

\* the declarators `<name> = defineCollection(...)` of the source
DefineCollectionBindings ==
    {d \in {Declarators(configSource.body, 1)[i] : i \in DOMAIN Declarators(configSource.body, 1)} :
        IsDefineCollectionCall(d)}

\* the bindings a collection of that public name can stand for
BindingsOf(collectionName) ==
    IF ExportProperties = {}
    THEN {d \in DefineCollectionBindings : d.id.name = collectionName}
    ELSE {d \in DefineCollectionBindings :
            \E p \in ExportProperties :
                /\ p.key.name = collectionName
                /\ d.id.name = (IF p.value.type = "Identifier" THEN p.value.name
                                ELSE p.key.name)}

\* the members `<name>: <declaration>` written in the object schema of a
\* binding, also when a function wraps the schema
SchemaMembersOf(d) ==
    IF Len(d.init.arguments) = 0 \/ d.init.arguments[1].type # "ObjectExpression" THEN {}
    ELSE UNION {
        LET node == d.init.arguments[1].properties[i].value
            schemaCall == IF node.type = "ArrowFunctionExpression" THEN node.body ELSE node
        IN  IF schemaCall.type = "CallExpression" /\ Len(schemaCall.arguments) > 0
               /\ schemaCall.arguments[1].type = "ObjectExpression"
            THEN {schemaCall.arguments[1].properties[j] : j \in DOMAIN schemaCall.arguments[1].properties}
            ELSE {} :
        i \in {k \in DOMAIN d.init.arguments[1].properties :
                  d.init.arguments[1].properties[k].key.name = "schema"}}

\* the declarations of a field of a collection in the source
FieldDeclarations(collectionName, fieldName) ==
    {m.value : m \in {n \in UNION {SchemaMembersOf(d) : d \in BindingsOf(collectionName)} :
                         n.key.name = fieldName}}

\* the declaration chains .<modifier>(...) somewhere
RECURSIVE HasModifier(_, _)
HasModifier(node, modifier) ==
    /\ node.type = "CallExpression"
    /\ node.callee.type = "MemberExpression"
    /\ \/ node.callee.property.name = modifier
       \/ HasModifier(node.callee.object, modifier)

\* the fields of all returned collections, each with its collection's name
ParsedFields ==
    UNION {{[collection |-> parsedCollections[i].name,
             field |-> parsedCollections[i].fields[j]] :
               j \in DOMAIN parsedCollections[i].fields} :
           i \in DOMAIN parsedCollections}

(* C15: for every field of every collection parseConfigFromSource returns, *)
(* required is true if and only if its declaration is neither wrapped in   *)
(* optional nor given a default; a field with a defaultValue is never      *)
(* required.                                                               *)
C15_RequiredIffNoOptionalNoDefault ==
    ConfigParsed =>
        \A pf \in ParsedFields :
            /\ \A declaration \in FieldDeclarations(pf.collection, pf.field.name) :
                  pf.field.required <=> /\ ~HasModifier(declaration, "optional")
                                        /\ ~HasModifier(declaration, "default")
            /\ Len(pf.field.defaultValue) > 0 => ~pf.field.required

\* the declaration without its optional and default modifiers
RECURSIVE BaseDeclaration(_)
BaseDeclaration(node) ==
    IF /\ node.type = "CallExpression"
       /\ node.callee.type = "MemberExpression"
       /\ node.callee.property.name \in {"optional", "default"}
    THEN BaseDeclaration(node.callee.object)
    ELSE node

\* the declaration is z.object({...})
IsObjectDeclaration(node) ==
    /\ BaseDeclaration(node).type = "CallExpression"
    /\ BaseDeclaration(node).callee.type = "MemberExpression"
    /\ BaseDeclaration(node).callee.object.type = "Identifier"
    /\ BaseDeclaration(node).callee.object.name = "z"
    /\ BaseDeclaration(node).callee.property.name = "object"
    /\ Len(BaseDeclaration(node).arguments) > 0
    /\ BaseDeclaration(node).arguments[1].type = "ObjectExpression"

\* the member names of an object declaration
MemberNames(node) ==
    {BaseDeclaration(node).arguments[1].properties[i].key.name :
        i \in DOMAIN BaseDeclaration(node).arguments[1].properties}

\* the {src|url, alt} convention
HasSourceAndAlt(names) == ("src" \in names \/ "url" \in names) /\ "alt" \in names

(* C16: an object-typed field whose only two members are a source-like    *)
(* key (src or url) and an alt-like key is classified image; an object     *)
(* field with three or more members, or lacking either of the two keys, is *)
(* classified object.                                                      *)
C16_ImageDetection ==
    ConfigParsed =>
        \A pf \in ParsedFields :
            \A declaration \in FieldDeclarations(pf.collection, pf.field.name) :
                IsObjectDeclaration(declaration) =>
                    IF /\ Cardinality(MemberNames(declaration)) = 2
                       /\ HasSourceAndAlt(MemberNames(declaration))
                    THEN pf.field.type = "image"
                    ELSE pf.field.type = "object"

\* the export statements `export const collections = {...}` of the source
ExportMappingStatements ==
    {i \in DOMAIN configSource.body :
        /\ IsCollectionsExport(configSource.body[i])
        /\ configSource.body[i].declaration[1].declarations[1].init.type = "ObjectExpression"}

\* all properties of the export mappings, whatever their key is written as
MappingProperties ==
    UNION {{configSource.body[i].declaration[1].declarations[1].init.properties[j] :
               j \in DOMAIN configSource.body[i].declaration[1].declarations[1].init.properties} :
           i \in ExportMappingStatements}

\* the collection name a mapping property gives: the identifier, or the
\* text of a quoted key
MappedName(p) == IF p.key.type = "Identifier" THEN p.key.name ELSE p.key.value[1]

ReturnedNames == {parsedCollections[i].name : i \in DOMAIN parsedCollections}

(* C17: if the source has an export statement that maps collection names   *)
(* to bindings, each returned collection is named by its key in that       *)
(* mapping; if there is no such export, every binding constructed by a     *)
(* define-collection call is returned under its own variable name.         *)
C17_CollectionNaming ==
    (ConfigParsed /\ ~ParseThrows(configSource)) =>
        IF ExportMappingStatements # {}
        THEN \A name \in ReturnedNames :
                \E p \in MappingProperties :
                    /\ MappedName(p) = name
                    /\ \E d \in DefineCollectionBindings : d.id.name = p.value.name
        ELSE /\ \A d \in DefineCollectionBindings : d.id.name \in ReturnedNames
             /\ \A name \in ReturnedNames :
                   \E d \in DefineCollectionBindings : d.id.name = name

\* the binding is enumerated in an export mapping
Enumerated(d) ==
    \E p \in MappingProperties : p.value.type = "Identifier" /\ p.value.name = d.id.name

\* the result holds the collection of a binding that no mapping enumerates:
\* a collection under the binding's own name that no mapping key gives
ReturnedUnexported(d) ==
    /\ ~Enumerated(d)
    /\ d.id.name \in ReturnedNames
    /\ \A p \in MappingProperties : MappedName(p) # d.id.name

(* C18: whenever an export mapping statement exists in the source, a       *)
(* collection that is defined but not enumerated in that mapping is absent *)
(* from the result: defined-but-unexported collections are returned only   *)
(* when no export mapping exists at all.                                   *)
C18_UnexportedAbsent ==
    (ConfigParsed /\ ExportMappingStatements # {}) =>
        \A d \in DefineCollectionBindings : ~ReturnedUnexported(d)

\* the schema of the binding is written as a function that wraps it:
\* schema: ({ image }) => z.object({...})
HasWrappedSchema(d) ==
    /\ Len(d.init.arguments) > 0
    /\ d.init.arguments[1].type = "ObjectExpression"
    /\ \E i \in DOMAIN d.init.arguments[1].properties :
          /\ d.init.arguments[1].properties[i].key.name = "schema"
          /\ d.init.arguments[1].properties[i].value.type = "ArrowFunctionExpression"

(* C19: a collection whose schema is wrapped in a one-argument function    *)
(* that receives helper constructors is still located and analysed: where  *)
(* no export mapping hides it, it is returned with the fields of the       *)
(* wrapped object schema.                                                  *)
C19_WrappedSchemaAnalysed ==
    (ConfigParsed /\ ~ParseThrows(configSource) /\ ExportMappingStatements = {}) =>
        \A d \in DefineCollectionBindings :
            HasWrappedSchema(d) =>
                \E i \in DOMAIN parsedCollections :
                    /\ parsedCollections[i].name = d.id.name
                    /\ {parsedCollections[i].fields[j].name :
                            j \in DOMAIN parsedCollections[i].fields}
                         = {m.key.name : m \in SchemaMembersOf(d)}

(* C20: parseConfigFromSource never throws to its caller: for a source     *)
(* that fails to parse as module syntax, and for a source without          *)
(* define-collection bindings, it returns the empty list.                  *)
C20_EmptyOnFailure ==
    ConfigParsed =>
        /\ configSource.malformed => parsedCollections = <<>>
        /\ DefineCollectionBindings = {} => parsedCollections = <<>>

\* an unparsable source whose statements define a collection that is
\* returned when the text does parse
C20_Witness ==
    /\ ConfigParsed
    /\ configSource.malformed
    /\ configSource.body = <<DefineBlog>>
    /\ parsedCollections = <<>>

\* a source with statements of which none is a define-collection binding
C20_WitnessNoBindings ==
    /\ ConfigParsed
    /\ ~configSource.malformed
    /\ Len(configSource.body) = 2
    /\ DefineCollectionBindings = {}
    /\ ExportProperties # {}
    /\ parsedCollections = <<>>

\* the bindings whose define-collection call is given an object with a
\* schema property
BindingsWithSchema ==
    {d \in DefineCollectionBindings :
        /\ Len(d.init.arguments) > 0
        /\ d.init.arguments[1].type = "ObjectExpression"
        /\ Len(DefinitionSchema(d.init.arguments[1].properties, 1, <<>>)) > 0}

SchemaNodeOf(d) == DefinitionSchema(d.init.arguments[1].properties, 1, <<>>)[1]

\* the schema cannot be reconstructed into code
Unreconstructible(d) == Len(astNodeToCode(SchemaNodeOf(d))) = 0

\* the reconstructed code cannot be evaluated
Unevaluable(d) == ~Unreconstructible(d) /\ Len(astNodeToZodSchema(SchemaNodeOf(d))) = 0

\* the code evaluates to a value without an object shape to introspect
WithoutShape(zodSchema) ==
    \A v \in {zodSchema[i] : i \in DOMAIN zodSchema} :
        ~(v.k = "zod" /\ v.typeName = "ZodObject")

Shapeless(d) ==
    /\ Len(astNodeToZodSchema(SchemaNodeOf(d))) > 0
    /\ WithoutShape(astNodeToZodSchema(SchemaNodeOf(d)))

(* C21: where no export mapping selects the collections, a collection      *)
(* whose schema cannot be reconstructed into code, cannot be evaluated or   *)
(* evaluates to something without an introspectable object shape is        *)
(* omitted from the result, and every other collection of the same source  *)
(* is returned.                                                            *)
C21_FailureIsolation ==
    (ConfigParsed /\ ~ParseThrows(configSource) /\ ExportMappingStatements = {}) =>
        \A d \in BindingsWithSchema :
            IF Unreconstructible(d) \/ Unevaluable(d) \/ Shapeless(d)
            THEN d.id.name \notin ReturnedNames
            ELSE d.id.name \in ReturnedNames

----------------------------------------------------------------------------
(* createPost under degraded inference                                      *)

\* the outcome of pattern detection in createPost
PatternOutcome ==
    IF detection[1].success THEN "success"
    ELSE IF ~dirExists THEN "directory missing"
    ELSE IF Len(MarkdownFiles) = 0 THEN "no files"
    ELSE "no frontmatter"

\* the outcome of framework detection in createPost
FrameworkOutcome ==
    IF ~HasFramework THEN "none"
    ELSE IF PrimaryOf.name # "Astro" THEN "static template"
    ELSE IF Len(frameworkDetection[1].astroCollections) = 0 THEN "Astro without collections"
    ELSE IF Len(call[1].options.collectionName) = 0 THEN "Astro, no collectionName"
    ELSE IF Len(FindCollection(frameworkDetection[1].astroCollections,
                               call[1].options.collectionName)) = 0
    THEN "Astro, collectionName without match"
    ELSE "Astro, collectionName with match"

(* C22: whatever pattern detection and framework detection come to,        *)
(* createPost completes having written exactly one post file, into the     *)
(* requested directory or the selected collection's, with the requested    *)
(* title in its frontmatter.                                               *)
C22_PostAlwaysWritten ==
    Written =>
        /\ Len(written) = 1
        /\ written[1].dir \in {call[1].options.contentDir} \cup
                               {project.collections[i].defaultDir : i \in DOMAIN project.collections}
        /\ Has(FrontmatterOf, "title")
        /\ Get(FrontmatterOf, "title") = Str(call[1].options.title)

\* no content directory, an Astro project with analysed collections, and a
\* collectionName that names none of them
C22_Witness ==
    /\ Written
    /\ PatternOutcome = "directory missing"
    /\ FrameworkOutcome = "Astro, collectionName without match"
    /\ Get(FrontmatterOf, "title") = Str(call[1].options.title)

\* files without frontmatter and no framework: the hard-coded default
C22_WitnessDefault ==
    /\ Written
    /\ PatternOutcome = "no frontmatter"
    /\ FrameworkOutcome = "none"
    /\ Get(FrontmatterOf, "title") = Str(call[1].options.title)

\* a learned pattern that carries its own title
C22_WitnessPattern ==
    /\ Written
    /\ PatternOutcome = "success"
    /\ UsesPattern
    /\ Has(TemplateOf, "title")
    /\ Get(FrontmatterOf, "title") = Str(call[1].options.title)

----------------------------------------------------------------------------
(* generateTemplate of the schema analyzer                                  *)

Generated == pc = "generated"

\* the fields of the collection generateTemplate was called with
TemplateFields ==
    {call[1].collection.fields[i] : i \in DOMAIN call[1].collection.fields}

HasDefault(f) == Len(f.defaultValue) > 0

\* the placeholders of a field type; an object-typed field has the empty
\* object or the empty image structure
PlaceholdersOf(type, now) ==
    CASE type = "string" -> {Str(<<>>)}
      [] type = "number" -> {Num(0)}
      [] type = "boolean" -> {Bool(FALSE)}
      [] type = "date" -> {DateV(now)}
      [] type = "array" -> {Arr(<<>>)}
      [] type = "image" -> {Obj(<<"src", "alt">>)}
      [] type = "object" -> {Obj(<<>>), Obj(<<"src", "alt">>)}
      [] OTHER -> {Str(<<>>)}

(* C23: the keys of the map generateTemplate returns are exactly the       *)
(* fields of the collection that are required or have a default; a field   *)
(* with a default maps to that default, a required field without default   *)
(* maps to the placeholder of its type, and an optional field without      *)
(* default is absent.                                                      *)
C23_GeneratedTemplate ==
    Generated =>
        /\ {generatedTemplate[1][i].name : i \in DOMAIN generatedTemplate[1]}
              = {f.name : f \in {g \in TemplateFields : g.required \/ HasDefault(g)}}
        /\ \A f \in TemplateFields :
              /\ HasDefault(f) => Get(generatedTemplate[1], f.name) = f.defaultValue[1]
              /\ (f.required /\ ~HasDefault(f)) =>
                    Get(generatedTemplate[1], f.name) \in PlaceholdersOf(f.type, call[1].now)
              /\ (~f.required /\ ~HasDefault(f)) => ~Has(generatedTemplate[1], f.name)

\* the blog collection: required fields, optional fields with a default
\* (draft, tags) and optional fields without one (description, heroImage)
C23_Witness ==
    /\ Generated
    /\ call[1].collection.name = "blog"
    /\ \E f \in TemplateFields : f.name = "draft" /\ ~f.required /\ HasDefault(f)
    /\ \E f \in TemplateFields : f.name = "description" /\ ~f.required /\ ~HasDefault(f)
    /\ \E f \in TemplateFields : f.name = "pubDate" /\ f.required /\ ~HasDefault(f)
    /\ Has(generatedTemplate[1], "draft")
    /\ Has(generatedTemplate[1], "pubDate")
    /\ ~Has(generatedTemplate[1], "description")

----------------------------------------------------------------------------
(* The text-based schema analysis                                           *)

SchemaAnalysed == pc = "analysed"

\* the declarations of a field name in the schema text
DeclarationsOf(fieldName) ==
    {declaredFields[i].definition :
        i \in {j \in DOMAIN declaredFields : declaredFields[j].name = fieldName}}

ReportedFields == {analysisResult[1].fields[i] : i \in DOMAIN analysisResult[1].fields}

ReportedRequired ==
    {analysisResult[1].requiredFields[i] : i \in DOMAIN analysisResult[1].requiredFields}

(* C24: analyzeSchema reports a field as required if and only if its       *)
(* definition contains no .optional() modifier; a field declared with      *)
(* .default(...) and without .optional() is in requiredFields with its     *)
(* default value recorded.                                                 *)
C24_RequiredUnlessOptional ==
    SchemaAnalysed =>
        \A f \in ReportedFields :
            \A definition \in DeclarationsOf(f.name) :
                /\ f.required <=> ~IncludesText(definition, OptionalModifier)
                /\ (/\ IncludesText(definition, DefaultOpen)
                    /\ ~IncludesText(definition, OptionalModifier))
                   => /\ f \in ReportedRequired
                      /\ Len(f.defaultValue) > 0

----------------------------------------------------------------------------
(* C25 *)

\* publishPost or unpublishPost has run
PublishCalled == pc \in {"published", "unpublished"}

\* the fields the last call may change: draft; date for a publishPost
\* given a publishDate; published for an unpublishPost of a post that has it
TouchedFields ==
    IF call[1].op = "publishPost"
    THEN IF Len(call[1].publishDate) > 0 THEN {"draft", "date"} ELSE {"draft"}
    ELSE IF Has(fileBefore[1].data, "published") THEN {"draft", "published"} ELSE {"draft"}

\* the values the last call gives the fields it may change
FlagsAsSet ==
    IF call[1].op = "publishPost"
    THEN /\ Get(postFile[1].data, "draft") = Bool(FALSE)
         /\ Len(call[1].publishDate) > 0
                => Get(postFile[1].data, "date") = DateV(call[1].publishDate[1])
    ELSE /\ Get(postFile[1].data, "draft") = Bool(TRUE)
         /\ Has(fileBefore[1].data, "published")
                => Get(postFile[1].data, "published") = Bool(FALSE)

\* every other field is there as before, with its value, and no field is new
OtherFieldsKept ==
    /\ Keys(postFile[1].data) = Keys(fileBefore[1].data) \cup TouchedFields
    /\ \A key \in Keys(fileBefore[1].data) \ TouchedFields :
          Get(postFile[1].data, key) = Get(fileBefore[1].data, key)

BodyKept == postFile[1].body = fileBefore[1].body

\* C25: publishPost changes only draft (to false) and, given a publishDate,
\* date; unpublishPost changes only draft (to true) and, when present,
\* published (to false); every other frontmatter field and the body are as
\* before; on a file that does not exist both throw "File not found" and
\* write nothing
C25_PublishFrame ==
    PublishCalled =>
        IF Len(fileBefore) = 0
        THEN publishError = FileNotFound /\ Len(postFile) = 0
        ELSE /\ Len(publishError) = 0
             /\ Len(postFile) > 0
             /\ FlagsAsSet
             /\ OtherFieldsKept
             /\ BodyKept

----------------------------------------------------------------------------
(* C26 *)

\* C26: after publishPost and unpublishPost calls on a post whose
\* frontmatter has a published field, published is true exactly when draft
\* is false
C26_FlagsAgree ==
    (/\ PublishCalled
     /\ Len(postFile) > 0
     /\ Has(postFile[1].data, "published"))
        => (Get(postFile[1].data, "published") = Bool(TRUE)
               <=> Get(postFile[1].data, "draft") = Bool(FALSE))

----------------------------------------------------------------------------
(* C27 *)

\* executeGitWorkflow has ended after the publish branch was created
EndedAfterBranch == pc = "exited" /\ Len(branchName) > 0

\* the working copy is on the original or the default branch and the
\* publish branch is gone
CleanedUp ==
    /\ repo.current \in {originalBranch[1], DefaultBranch}
    /\ branchName[1] \notin repo.branches

\* C27: once the publish branch has been created, every ending of the
\* workflow other than 'manual' (merged, closed, timeout, a thrown error,
\* the user declining after validation errors) leaves the working copy on
\* the original or default branch with the local publish branch deleted
C27_EndingsCleanUp ==
    (EndedAfterBranch /\ ending # "manual") => CleanedUp

----------------------------------------------------------------------------
(* C28 *)

\* waitForPRCompletion has returned
WaitReturned == Len(waitResult) > 0

\* the last round had a status, and it reported failed checks on an open
\* pull request, and the user answered
AnsweredAfterFailedCI(answer) ==
    /\ Len(lastStatus) > 0
    /\ CIFailed(lastStatus[1])
    /\ lastAnswer = <<answer>>

\* C28: waitForPRCompletion returns 'merged' only after a status with state
\* MERGED, 'closed' only after a status with state CLOSED or the answer
\* cleanup after failed checks, 'manual' only on the answer manual after
\* failed checks, 'timeout' only once 10 minutes have elapsed; a round in
\* which the status check throws is retried and returns no outcome
C28_OutcomeSound ==
    /\ WaitReturned =>
          CASE waitResult[1] = "merged" ->
                  Len(lastStatus) > 0 /\ lastStatus[1].state = "MERGED"
            [] waitResult[1] = "closed" ->
                  \/ Len(lastStatus) > 0 /\ lastStatus[1].state = "CLOSED"
                  \/ AnsweredAfterFailedCI("cleanup")
            [] waitResult[1] = "manual" -> AnsweredAfterFailedCI("manual")
            [] waitResult[1] = "timeout" -> elapsed >= 10 * 60 * 1000
            [] OTHER -> FALSE
    /\ (WaitReturned /\ Len(lastStatus) = 0) => waitResult[1] = "timeout"
    /\ (pc = "waiting" /\ Len(lastStatus) = 0) => ~WaitReturned

\* the wait went through a round that threw and a round that went on, and
\* then ended on the user's answer
C28_Witness ==
    /\ WaitReturned
    /\ waitResult[1] = "closed"
    /\ AnsweredAfterFailedCI("cleanup")
    /\ elapsed > RetryDelay + InitialPollInterval

----------------------------------------------------------------------------
(* C29 *)

Reconstructed == pc = "reconstructed"

\* C29: the text astNodeToCode produces for a string literal evaluates
\* back to exactly the string of the literal, also when the string holds a
\* double quote, a backslash or a line feed
C29_LiteralRoundTrip ==
    Reconstructed =>
        evaluatedSchema[1] = <<ZodDefault(ZodType("ZodString", FALSE), Str(literalValue))>>

----------------------------------------------------------------------------
(* C30 *)

\* the examples a field keeps
ExampleLimit == 3

\* one order of the files of the learner specification
LearnOrder == <<PostA, PostA2, PostC, PostD>>

\* the same files in that order: the ordering every ordering of them shares
RECURSIVE SortedFiles(_, _)
SortedFiles(fileList, k) ==
    IF k > Len(LearnOrder) THEN <<>>
    ELSE SelectSeq(fileList, LAMBDA file : file = LearnOrder[k]) \o SortedFiles(fileList, k + 1)

\* what the call that ran returns for that ordering of the same files
ReorderedDetection ==
    detectFrontmatterPattern(dirExists, SortedFiles(files, 1), call[1].maxPosts, call[1].now)

\* the same keys with the same values
SameTemplate(a, b) ==
    /\ Keys(a) = Keys(b)
    /\ \A key \in Keys(a) : Get(a, key) = Get(b, key)

SameTiers(a, b) ==
    /\ SeqToSet(a.requiredFields) = SeqToSet(b.requiredFields)
    /\ SeqToSet(a.optionalFields) = SeqToSet(b.optionalFields)
    /\ SeqToSet(a.rareFields) = SeqToSet(b.rareFields)

\* the samples that have the field
SamplesWith(samples, fieldName) == {i \in DOMAIN samples : Has(samples[i], fieldName)}

\* the values of the field that the learner counts as different examples:
\* equal primitive values once, every other value on its own
CountedExamples(samples, fieldName) ==
    Cardinality({Get(samples[i], fieldName) :
                    i \in {j \in SamplesWith(samples, fieldName) :
                              IsPrimitive(Get(samples[j], fieldName))}})
    + Cardinality({i \in SamplesWith(samples, fieldName) :
                      ~IsPrimitive(Get(samples[i], fieldName))})

SampledTypes(samples, fieldName) ==
    {IF Get(samples[i], fieldName).k = "array" THEN "array"
     ELSE TypeOf(Get(samples[i], fieldName)) : i \in SamplesWith(samples, fieldName)}

\* every field keeps all its examples and has one type
ExamplesFit(samples) ==
    \A i \in DOMAIN samples :
        \A fieldName \in Keys(samples[i]) :
            /\ CountedExamples(samples, fieldName) <= ExampleLimit
            /\ Cardinality(SampledTypes(samples, fieldName)) = 1

\* the call that ran and the call on the exchanged files agree on
\* success, tiers and confidence, and on the template when it is asked for
AgreesWith(other, withTemplate) ==
    /\ other.success = detection[1].success
    /\ other.success =>
          /\ SameTiers(other.pattern[1], detection[1].pattern[1])
          /\ other.pattern[1].confidence = detection[1].pattern[1].confidence
          /\ withTemplate =>
                SameTemplate(other.suggestedTemplate[1], detection[1].suggestedTemplate[1])

====
